---- MODULE Spec2Model ----
(***************************************************************************)
(* Model of the laser-controller hardware layer: the GRBL protocol driver  *)
(* (api/modules/grbl.py), the settings cache (api/schemas/grbl.py), the    *)
(* limit telemetry reader (api/modules/limits.py), the seek and homing     *)
(* functions (api/services/calibration.py) and the request handlers        *)
(* (api/routers).                                                          *)
(*                                                                         *)
(* One thread of control: at most one call is in progress (pc # "idle").   *)
(* wire is the list of command lines the call in progress (or the last     *)
(* call) wrote to the GRBL channel; a line is a sequence of words, a word  *)
(* is a letter with a number.  Python's Optional is a sequence of length   *)
(* 0 (None) or 1.  Lengths are in units of 0.1 mm, feeds in mm/min.        *)
(* outstanding counts the commands written since the code last saw a       *)
(* terminal line, let a wait deadline pass or drained the input.           *)
(*                                                                         *)
(* Spec is the library as any caller drives it, one call at a time.        *)
(* ServerSpec is the ASGI application: req holds the HTTP requests that    *)
(* clients have submitted and the position of each handler.                *)
(***************************************************************************)
EXTENDS Integers, Sequences, FiniteSets, TLC

VARIABLES pc, call, wire, ret, cache, machine, sc, sk, outstanding, req

vars == <<pc, call, wire, ret, cache, machine, sc, sk, outstanding, req>>

(* ---------------------------------------------------------------- bounds *)
MaxRetries == 2
MaxReads == 2
MaxElapsed == 2
MaxSteps == 2
MaxWindow == 2
MaxRequests == 2

(* -------------------------------------------------------- plain helpers *)
None == <<>>
Some(v) == <<v>>
IsNone(o) == o = <<>>
Val(o) == o[1]
W(l, v) == [l |-> l, v |-> v]
Range(s) == {s[i] : i \in 1..Len(s)}
HasWord(line, l) == \E i \in 1..Len(line) : line[i].l = l
WordVals(line, l) == {line[i].v : i \in {j \in 1..Len(line) : line[j].l = l}}
Min(a, b) == IF a < b THEN a ELSE b

(* ------------------------------------------- api/schemas/grbl.py tables *)
SETTING_NUM_TO_KEY ==
  [n \in {0, 1, 2, 3, 4, 5, 6, 10, 11, 12, 13, 20, 21, 22, 23, 24, 25, 26, 27,
          28, 30, 31, 32, 100, 101, 102, 110, 111, 112, 120, 121, 122, 130,
          131, 132} |->
     CASE n = 0 -> "step_pulse_time"
       [] n = 1 -> "step_idle_delay"
       [] n = 2 -> "step_port_invert_mask"
       [] n = 3 -> "direction_port_invert_mask"
       [] n = 4 -> "step_enable_invert"
       [] n = 5 -> "limit_pins_invert"
       [] n = 6 -> "probe_pin_invert"
       [] n = 10 -> "status_report_mask"
       [] n = 11 -> "junction_deviation"
       [] n = 12 -> "arc_tolerance"
       [] n = 13 -> "arc_tolerance"
       [] n = 20 -> "report_inches"
       [] n = 21 -> "soft_limits"
       [] n = 22 -> "hard_limits"
       [] n = 23 -> "homing_cycle"
       [] n = 24 -> "homing_dir_invert_mask"
       [] n = 25 -> "homing_feed_rate"
       [] n = 26 -> "homing_seek_rate"
       [] n = 27 -> "homing_debounce_delay"
       [] n = 28 -> "homing_pull_off"
       [] n = 30 -> "max_spindle_speed"
       [] n = 31 -> "min_spindle_speed"
       [] n = 32 -> "laser_mode"
       [] n = 100 -> "x_steps_per_mm"
       [] n = 101 -> "y_steps_per_mm"
       [] n = 102 -> "z_steps_per_mm"
       [] n = 110 -> "x_max_rate"
       [] n = 111 -> "y_max_rate"
       [] n = 112 -> "z_max_rate"
       [] n = 120 -> "x_acceleration"
       [] n = 121 -> "y_acceleration"
       [] n = 122 -> "z_acceleration"
       [] n = 130 -> "x_max_travel"
       [] n = 131 -> "y_max_travel"
       [] n = 132 -> "z_max_travel"]

SettingKeys == {SETTING_NUM_TO_KEY[n] : n \in DOMAIN SETTING_NUM_TO_KEY}

\* {v: k for k, v in SETTING_NUM_TO_KEY.items()}: the last index wins.
KEY_TO_SETTING_NUM ==
  [k \in SettingKeys |->
     CHOOSE n \in DOMAIN SETTING_NUM_TO_KEY :
       /\ SETTING_NUM_TO_KEY[n] = k
       /\ \A m \in DOMAIN SETTING_NUM_TO_KEY :
            SETTING_NUM_TO_KEY[m] = k => m <= n]

\* Variant: dict.get(key, 0).
KeyToSettingNum_default(key) ==
  IF key \in SettingKeys THEN Some(KEY_TO_SETTING_NUM[key]) ELSE Some(0)

\* dict.get(key): None for a key that is not in the table.
KeyToSettingNum(key) ==
  IF key \in SettingKeys THEN Some(KEY_TO_SETTING_NUM[key]) ELSE None

\* SETTING_NUM_TO_KEY.get(setting_num), as from_raw_settings looks it up.
SettingNumToKey(setting_num) ==
  IF setting_num \in DOMAIN SETTING_NUM_TO_KEY
  THEN Some(SETTING_NUM_TO_KEY[setting_num]) ELSE None

(* ------------------------------- api/modules/grbl.py: command builders *)
XWord(x) == IF IsNone(x) THEN <<>> ELSE <<W("X", Val(x))>>
FWord(feed) == IF IsNone(feed) THEN <<>> ELSE <<W("F", Val(feed))>>

\* Variant: an explicit z is kept next to y.
move_relative_keeps_z(x, y, z, feed) ==
  <<W("G", 1)>> \o XWord(x)
    \o (IF ~IsNone(y)
        THEN <<W("Y", Val(y)), W("Z", IF ~IsNone(z) THEN Val(z) ELSE Val(y))>>
        ELSE IF ~IsNone(z) THEN <<W("Z", Val(z))>> ELSE <<>>)
    \o FWord(feed)

move_relative(x, y, z, feed) ==
  <<W("G", 1)>> \o XWord(x)
    \o (IF ~IsNone(y) THEN <<W("Y", Val(y)), W("Z", Val(y))>>
        ELSE IF ~IsNone(z) THEN <<W("Z", Val(z))>> ELSE <<>>)
    \o FWord(feed)

\* Variant: the coupling is applied in both directions.
move_absolute_couples_both_ways(x, y, z, feed) ==
  <<W("G", 1)>> \o XWord(x)
    \o (IF ~IsNone(y) THEN <<W("Y", Val(y)), W("Z", Val(y))>>
        ELSE IF ~IsNone(z) THEN <<W("Y", Val(z)), W("Z", Val(z))>> ELSE <<>>)
    \o FWord(feed)

move_absolute(x, y, z, feed) ==
  <<W("G", 1)>> \o XWord(x)
    \o (IF ~IsNone(y) THEN <<W("Y", Val(y)), W("Z", Val(y))>>
        ELSE IF ~IsNone(z) THEN <<W("Z", Val(z))>> ELSE <<>>)
    \o FWord(feed)

set_work_coordinate_offset(x, y, z) ==
  <<W("G", 92)>> \o XWord(x)
    \o (IF ~IsNone(y) THEN <<W("Y", Val(y)), W("Z", Val(y))>>
        ELSE IF ~IsNone(z) THEN <<W("Z", Val(z))>> ELSE <<>>)

set_mode_relative == <<W("G", 91)>>
set_mode_absolute == <<W("G", 90)>>
unlock_alarm == <<W("$X", 0)>>
reset_grbl == <<W("0x18", 0)>>
feed_hold == <<W("!", 0)>>
SettingLine(num, value) == <<W("$", num), W("=", value)>>

(* ------------------------------------------------------- input domains *)
XArgs == {None, Some(5)}
YArgs == {None, Some(5), Some(-5)}
ZArgs == {None, Some(5), Some(7)}
FeedArgs == {None, Some(800)}
CachedKeys == {"step_idle_delay", "x_steps_per_mm"}
KeyArgs == CachedKeys \cup {"spindle_warp"}
ValueArgs(key) == IF key = "x_steps_per_mm" THEN {260} ELSE {25, 255}

NoCall == [name |-> "none"]
NoRet == [kind |-> "none"]
NoSc == [attempts |-> 0]
RequestIds == 1..MaxRequests
NoReq == [state |-> "none"]
NoSk == [steps |-> 0]
NewSk == [elapsed |-> 0, distance |-> 0, steps |-> 0, reads |-> 0,
          pressed |-> FALSE, line |-> <<>>, polls |-> 0, json_data |-> None,
          seen |-> <<>>, found |-> FALSE]

Init ==
  /\ pc = "idle"
  /\ call = NoCall
  /\ wire = <<>>
  /\ ret = NoRet
  /\ cache = [k \in CachedKeys |-> IF k = "step_idle_delay" THEN Some(25) ELSE Some(250)]
  /\ machine = [k \in CachedKeys |-> None]
  /\ sc = NoSc
  /\ sk = NoSk
  /\ outstanding = 0
  /\ req = [i \in RequestIds |-> NoReq]

\* The last value written to the machine for each key by the lines of w.
RECURSIVE Written(_, _)
Written(m, w) ==
  IF w = <<>> THEN m
  ELSE LET line == Head(w)
           m2 == IF /\ Len(line) = 2
                    /\ line[1].l = "$"
                    /\ line[1].v \in DOMAIN SETTING_NUM_TO_KEY
                    /\ SETTING_NUM_TO_KEY[line[1].v] \in DOMAIN m
                 THEN [m EXCEPT ![SETTING_NUM_TO_KEY[line[1].v]] = Some(line[2].v)]
                 ELSE m
       IN Written(m2, Tail(w))

(* ------------------------------------------------------ channel writes *)
\* ser.write by a call that starts now / by the call in progress.
Begin(lines) == /\ wire' = lines
                /\ machine' = Written(machine, lines)
                /\ outstanding' = Len(lines)
Emit(lines) == /\ wire' = wire \o lines
               /\ machine' = Written(machine, lines)
               /\ outstanding' = outstanding + Len(lines)
\* The same, each line followed by a sleep and ser.read_all().
BeginDrained(lines) == /\ wire' = lines
                       /\ machine' = Written(machine, lines)
                       /\ outstanding' = 0
EmitDrained(lines) == /\ wire' = wire \o lines
                      /\ machine' = Written(machine, lines)
                      /\ outstanding' = 0

(* --------------------------------- movement primitives, called directly *)
MoveRelative ==
  /\ pc = "idle"
  /\ \E x \in XArgs, y \in YArgs, z \in ZArgs, feed \in FeedArgs :
       /\ call' = [name |-> "move_relative", x |-> x, y |-> y, z |-> z, feed |-> feed]
       /\ Begin(<<move_relative(x, y, z, feed)>>)
  /\ ret' = [kind |-> "return"]
  /\ sc' = NoSc /\ sk' = NoSk
  /\ UNCHANGED <<pc, cache>>
  /\ UNCHANGED req

MoveAbsolute ==
  /\ pc = "idle"
  /\ \E x \in XArgs, y \in YArgs, z \in ZArgs, feed \in FeedArgs :
       /\ call' = [name |-> "move_absolute", x |-> x, y |-> y, z |-> z, feed |-> feed]
       /\ Begin(<<move_absolute(x, y, z, feed)>>)
  /\ ret' = [kind |-> "return"]
  /\ sc' = NoSc /\ sk' = NoSk
  /\ UNCHANGED <<pc, cache>>
  /\ UNCHANGED req

SetWorkCoordinateOffset ==
  /\ pc = "idle"
  /\ \E x \in XArgs, y \in YArgs, z \in ZArgs :
       /\ call' = [name |-> "set_work_coordinate_offset", x |-> x, y |-> y, z |-> z]
       /\ Begin(<<set_work_coordinate_offset(x, y, z)>>)
  /\ ret' = [kind |-> "return"]
  /\ sc' = NoSc /\ sk' = NoSk
  /\ UNCHANGED <<pc, cache>>
  /\ UNCHANGED req

(* ------------------------ GrblConnection.update_setting and set_setting *)
\* GrblSettings.set_setting_value: hasattr check, then setattr.
set_setting_value(settings, key, value) ==
  IF key \in DOMAIN settings THEN [settings EXCEPT ![key] = Some(value)] ELSE settings

\* Variant: the cache entry is set together with the write.
update_setting_call_caching ==
  /\ pc = "idle"
  /\ \E key \in KeyArgs : \E value \in ValueArgs(key) :
       /\ call' = [name |-> "update_setting", key |-> key, value |-> value]
       /\ IF IsNone(KeyToSettingNum(key))
          THEN /\ Begin(<<>>)
               /\ ret' = [kind |-> "raise", exc |-> "ValueError"]
               /\ pc' = "idle"
               /\ UNCHANGED cache
          ELSE /\ Begin(<<SettingLine(Val(KeyToSettingNum(key)), value)>>)
               /\ cache' = set_setting_value(cache, key, value)
               /\ ret' = NoRet
               /\ pc' = "update_setting_cache"
  /\ sc' = NoSc /\ sk' = NoSk
  /\ UNCHANGED req

\* update_setting up to and including the write; the cache follows after
\* the 0.2 s sleep (update_setting_cache).
update_setting_call ==
  /\ pc = "idle"
  /\ \E key \in KeyArgs : \E value \in ValueArgs(key) :
       /\ call' = [name |-> "update_setting", key |-> key, value |-> value]
       /\ IF IsNone(KeyToSettingNum(key))
          THEN /\ Begin(<<>>)
               /\ ret' = [kind |-> "raise", exc |-> "ValueError"]
               /\ pc' = "idle"
          ELSE /\ Begin(<<SettingLine(Val(KeyToSettingNum(key)), value)>>)
               /\ ret' = NoRet
               /\ pc' = "update_setting_cache"
  /\ sc' = NoSc /\ sk' = NoSk
  /\ UNCHANGED cache
  /\ UNCHANGED req

update_setting_cache ==
  /\ pc = "update_setting_cache"
  /\ cache' = set_setting_value(cache, call.key, call.value)
  /\ ret' = [kind |-> "return"]
  /\ pc' = "idle"
  /\ UNCHANGED <<call, wire, outstanding, machine, sc, sk>>
  /\ UNCHANGED req

\* grbl.set_setting: through the connection when one is given, else a bare
\* write that does not touch the cache.
set_setting_call ==
  /\ pc = "idle"
  /\ \E key \in KeyArgs, connection \in BOOLEAN : \E value \in ValueArgs(key) :
       /\ call' = [name |-> "set_setting", key |-> key, value |-> value,
                   connection |-> connection]
       /\ IF IsNone(KeyToSettingNum(key))
          THEN /\ Begin(<<>>)
               /\ ret' = [kind |-> "raise", exc |-> "ValueError"]
               /\ pc' = "idle"
          ELSE /\ Begin(<<SettingLine(Val(KeyToSettingNum(key)), value)>>)
               /\ ret' = IF connection THEN NoRet ELSE [kind |-> "return"]
               /\ pc' = IF connection THEN "update_setting_cache" ELSE "idle"
  /\ sc' = NoSc /\ sk' = NoSk
  /\ UNCHANGED cache
  /\ UNCHANGED req

(* --------------------------------------------------- grbl.send_command *)
\* Lines the controller can put on the channel, as character sequences;
\* the empty sequence is a readline that timed out.
RxLines ==
  { <<>>, <<" ">>, <<"o", "k">>, <<"O", "K", " ">>, <<"o", "k", "a", "y">>,
    <<"e", "r", "r", "o", "r", ":", "9">>, <<"A", "L", "A", "R", "M", ":", "1">> }

LowerChar(c) ==
  CASE c = "O" -> "o" [] c = "K" -> "k" [] c = "A" -> "a" [] c = "L" -> "l"
    [] c = "R" -> "r" [] c = "M" -> "m" [] OTHER -> c
Lower(s) == [i \in 1..Len(s) |-> LowerChar(s[i])]

RECURSIVE LStrip(_)
LStrip(s) == IF s # <<>> /\ Head(s) = " " THEN LStrip(Tail(s)) ELSE s
RECURSIVE RStrip(_)
RStrip(s) == IF s # <<>> /\ s[Len(s)] = " " THEN RStrip(SubSeq(s, 1, Len(s) - 1)) ELSE s
Strip(s) == RStrip(LStrip(s))

StartsWith(s, p) == Len(s) >= Len(p) /\ SubSeq(s, 1, Len(p)) = p

OkText == <<"o", "k">>
ErrorPrefix == <<"e", "r", "r", "o", "r", ":">>
AlarmPrefix == <<"a", "l", "a", "r", "m", ":">>

\* Variant: the comparison with "ok" is case-sensitive.
LineResult_case_sensitive(line, result) ==
  LET lower == Lower(line)
      r1 == IF line = OkText THEN "ok" ELSE result
  IN IF StartsWith(lower, ErrorPrefix) \/ StartsWith(lower, AlarmPrefix)
     THEN "error" ELSE r1

\* The verdict one stripped, non-empty line gives (lines 104-108).
LineResult(line, result) ==
  LET lower == Lower(line)
      r1 == IF lower = OkText THEN "ok" ELSE result
  IN IF StartsWith(lower, ErrorPrefix) \/ StartsWith(lower, AlarmPrefix)
     THEN "error" ELSE r1

\* Variant: one attempt too many.
send_command_continues_inclusive(attempts, retries) == attempts <= retries

\* while attempts < request.retries
send_command_continues(attempts, retries) == attempts < retries

\* The two return statements of send_command.
send_command_success(last_response, attempts) ==
  [kind |-> "return", success |-> TRUE, response |-> last_response,
   attempts |-> attempts + 1]
\* Variant: exhaustion is raised instead of returned.
send_command_failure_raises(last_response, attempts) ==
  [kind |-> "raise", exc |-> "RuntimeError", response |-> last_response,
   attempts |-> attempts]

send_command_failure(last_response, attempts) ==
  [kind |-> "return", success |-> FALSE, response |-> last_response,
   attempts |-> attempts]

\* History kept for the properties, not by the code: for each finished
\* attempt, whether a line case-insensitively equal to "ok" was read in it
\* before any error:/alarm: line (and before its deadline).
IsFaultText(line) ==
  StartsWith(Lower(line), ErrorPrefix) \/ StartsWith(Lower(line), AlarmPrefix)
OkFirst(parts) ==
  \E i \in 1..Len(parts) :
    /\ Lower(parts[i]) = OkText
    /\ \A j \in 1..(i - 1) : ~IsFaultText(parts[j])

\* Command strings handed to send_command (the G-code stream lines the
\* replay forwards: M-commands, G92, G28, G30).
StreamCommands ==
  { <<W("M", 5)>>, <<W("G", 28), W("Y", 0)>> }
RetriesArgs == 0..MaxRetries

send_command_call ==
  /\ pc = "idle"
  /\ \E command \in StreamCommands, retries \in RetriesArgs :
       /\ call' = [name |-> "send_command", command |-> command, retries |-> retries]
       /\ sc' = [attempts |-> 0, last_response |-> <<>>, response_parts |-> <<>>,
                 result |-> "None", reads |-> 0, io |-> <<>>,
                 verdicts |-> <<>>]
  /\ Begin(<<>>)
  /\ ret' = NoRet
  /\ pc' = "sc_loop"
  /\ sk' = NoSk
  /\ UNCHANGED cache
  /\ UNCHANGED req

\* while attempts < request.retries: reset_input_buffer, write, new deadline;
\* or fall out of the loop and return the failure response.
send_command_loop ==
  /\ pc = "sc_loop"
  /\ IF send_command_continues(sc.attempts, call.retries)
     THEN /\ Emit(<<call.command>>)
          /\ sc' = [sc EXCEPT !.io = @ \o <<"reset", "write">>,
                              !.response_parts = <<>>,
                              !.result = "None",
                              !.reads = 0]
          /\ pc' = "sc_read"
          /\ UNCHANGED ret
     ELSE /\ ret' = send_command_failure(sc.last_response, sc.attempts)
          /\ pc' = "idle"
          /\ UNCHANGED <<wire, outstanding, machine, sc>>
  /\ UNCHANGED <<call, cache, sk>>
  /\ UNCHANGED req

\* One pass of the inner loop taken before the deadline: readline and
\* classify.  Time advances with every pass, so an attempt makes at most
\* MaxReads of them.
send_command_readline ==
  /\ pc = "sc_read"
  /\ sc.result = "None"
  /\ sc.reads < MaxReads
  /\ \E line_bytes \in RxLines :
       LET line == Strip(line_bytes)
       IN IF line_bytes = <<>> \/ line = <<>>
          THEN sc' = [sc EXCEPT !.reads = @ + 1]
          ELSE sc' = [sc EXCEPT !.reads = @ + 1,
                               !.response_parts = Append(@, line),
                               !.result = LineResult(line, sc.result)]
  /\ UNCHANGED <<pc, call, wire, outstanding, ret, cache, machine, sk>>
  /\ UNCHANGED req

\* The inner loop ends: a verdict was reached or the deadline has passed.
send_command_attempt_end ==
  /\ pc = "sc_read"
  /\ IF sc.result = "ok"
     THEN /\ ret' = send_command_success(sc.response_parts, sc.attempts)
          /\ sc' = [sc EXCEPT !.last_response = sc.response_parts,
                              !.verdicts = Append(@, OkFirst(sc.response_parts))]
          /\ pc' = "idle"
     ELSE /\ sc' = [sc EXCEPT !.last_response = sc.response_parts,
                              !.attempts = @ + 1,
                              !.verdicts = Append(@, OkFirst(sc.response_parts))]
          /\ pc' = "sc_loop"
          /\ UNCHANGED ret
  /\ outstanding' = 0
  /\ UNCHANGED <<call, wire, cache, machine, sk>>
  /\ UNCHANGED req

(* ------------------------------------- api/modules/limits.py: telemetry *)
\* One line of the limit controller's stream: whether it starts with '{',
\* whether it parses as JSON, its device field and its switches list.
TLine(brace, valid, device, switches) ==
  [brace |-> brace, valid |-> valid, device |-> device, switches |-> switches]
Sw(id, state) == [id |-> id, state |-> state]
Frame(device, pressed) ==
  TLine(TRUE, TRUE, device,
        [i \in 1..6 |-> Sw(i - 1, IF (i - 1) \in pressed THEN 1 ELSE 0)])

TelemetryLines ==
  { Frame("limit-controller", {}), Frame("limit-controller", {3}),
    Frame("limit-controller", {2}), Frame("limit-controller", {1}),
    Frame("limit-controller", {5}), Frame("other-device", {3}),
    TLine(TRUE, FALSE, "limit-controller", <<>>) }

\* The non-empty lines that arrive inside one polling window.
RECURSIVE SeqsUpTo(_, _)
SeqsUpTo(S, n) ==
  IF n = 0 THEN {<<>>}
  ELSE LET shorter == SeqsUpTo(S, n - 1)
       IN shorter \cup {Append(q, e) : q \in {r \in shorter : Len(r) = n - 1}, e \in S}
Windows == SeqsUpTo(TelemetryLines, MaxWindow)

\* The smallest index in hits, 0 if there is none.
FirstIndex(hits) ==
  IF hits = {} THEN 0 ELSE CHOOSE i \in hits : \A j \in hits : i <= j

\* Variant: a window with no frame for the switch counts as pressed.
get_switch_state_silence_pressed(window, switch_id) ==
  LET hits == {k \in 1..Len(window) :
                 /\ window[k].brace /\ window[k].valid
                 /\ \E n \in 1..Len(window[k].switches) :
                      window[k].switches[n].id = switch_id}
  IN IF hits = {} THEN [switch_id |-> switch_id, state |-> 1, found |-> FALSE]
     ELSE LET line == window[FirstIndex(hits)]
              i == FirstIndex({n \in 1..Len(line.switches) :
                                 line.switches[n].id = switch_id})
          IN [switch_id |-> switch_id, state |-> line.switches[i].state, found |-> TRUE]

RECURSIVE get_switch_state(_, _)
get_switch_state(window, switch_id) ==
  IF window = <<>> THEN [switch_id |-> switch_id, state |-> 0, found |-> FALSE]
  ELSE LET line == Head(window)
           i == FirstIndex({n \in 1..Len(line.switches) :
                              line.switches[n].id = switch_id})
       IN IF line.brace /\ line.valid /\ i # 0
          THEN [switch_id |-> switch_id, state |-> line.switches[i].state, found |-> TRUE]
          ELSE get_switch_state(Tail(window), switch_id)

\* Variant: the first pressed switch of the line, in the list or not.
RECURSIVE get_pressed_switch_id_any(_, _)
get_pressed_switch_id_any(window, switch_ids) ==
  IF window = <<>> THEN None
  ELSE LET line == Head(window)
           i == FirstIndex({n \in 1..Len(line.switches) :
                              line.switches[n].state = 1})
       IN IF line.brace /\ line.valid /\ i # 0
          THEN Some(line.switches[i].id)
          ELSE get_pressed_switch_id_any(Tail(window), switch_ids)

RECURSIVE get_pressed_switch_id(_, _)
get_pressed_switch_id(window, switch_ids) ==
  IF window = <<>> THEN None
  ELSE LET line == Head(window)
           i == FirstIndex({n \in 1..Len(line.switches) :
                              /\ line.switches[n].id \in Range(switch_ids)
                              /\ line.switches[n].state = 1})
       IN IF line.brace /\ line.valid /\ i # 0
          THEN Some(line.switches[i].id)
          ELSE get_pressed_switch_id(Tail(window), switch_ids)

\* read_limit_controller_data: the first line that starts with '{', parses
\* and whose device field is 'limit-controller'.
RECURSIVE read_limit_controller_data(_)
read_limit_controller_data(window) ==
  IF window = <<>> THEN None
  ELSE LET line == Head(window)
       IN IF line.brace /\ line.valid /\ line.device = "limit-controller"
          THEN Some([device |-> line.device, switches |-> line.switches])
          ELSE read_limit_controller_data(Tail(window))

\* check_switch_pressed: the loop of get_pressed_switch_id, returning a bool.
RECURSIVE check_switch_pressed(_, _)
check_switch_pressed(window, switch_ids) ==
  IF window = <<>> THEN FALSE
  ELSE LET line == Head(window)
       IN IF /\ line.brace
             /\ line.valid
             /\ \E n \in 1..Len(line.switches) :
                  /\ line.switches[n].id \in Range(switch_ids)
                  /\ line.switches[n].state = 1
          THEN TRUE
          ELSE check_switch_pressed(Tail(window), switch_ids)

(* ------------------------------ the telemetry queries, called directly *)
SwitchIdArgs == {3, 2}
SwitchIdsArgs == {<<0, 1>>, <<4, 5>>}
TelemetryCalls == {"read_limit_controller_data", "get_switch_state",
                   "check_switch_pressed", "get_pressed_switch_id"}
\* readline returned nothing before the serial timeout.
NoLine == TLine(FALSE, FALSE, "", <<>>)

\* What the query c returns when the lines of window are all it reads.
telemetry_query(c, window) ==
  CASE c.name = "read_limit_controller_data" -> read_limit_controller_data(window)
    [] c.name = "get_switch_state" -> get_switch_state(window, c.switch_id)
    [] c.name = "check_switch_pressed" -> check_switch_pressed(window, c.switch_ids)
    [] c.name = "get_pressed_switch_id" -> get_pressed_switch_id(window, c.switch_ids)

\* Variant: the loop ignores its deadline.
telemetry_continues_forever(now, deadline) == TRUE

\* while time.time() < deadline, the clock counted in passes of the loop.
telemetry_continues(now, deadline) == now < deadline

telemetry_call ==
  /\ pc = "idle"
  /\ \E name \in TelemetryCalls, switch_id \in SwitchIdArgs,
        switch_ids \in SwitchIdsArgs, timeout \in 1..MaxWindow :
       call' = CASE name = "read_limit_controller_data" ->
                      [name |-> name, timeout |-> timeout]
                 [] name = "get_switch_state" ->
                      [name |-> name, switch_id |-> switch_id, timeout |-> timeout]
                 [] OTHER ->
                      [name |-> name, switch_ids |-> switch_ids, timeout |-> timeout]
  /\ Begin(<<>>)
  /\ sk' = NewSk
  /\ sc' = NoSc
  /\ ret' = NoRet
  /\ pc' = "telemetry_read"
  /\ UNCHANGED <<cache, req>>

\* One pass of the loop: readline, then the checks on the line.  A line
\* that decides the query ends the call.  sk.seen lists the lines the call
\* has read so far.
telemetry_readline ==
  /\ pc = "telemetry_read"
  /\ telemetry_continues(sk.reads, call.timeout)
  /\ sk.reads < MaxWindow
  /\ \E line \in TelemetryLines \cup {NoLine} :
       LET value == telemetry_query(call, <<line>>)
       IN IF value # telemetry_query(call, <<>>)
          THEN /\ sk' = [sk EXCEPT !.reads = @ + 1, !.json_data = Some(line),
                                    !.seen = Append(@, line)]
               /\ ret' = [kind |-> "return", value |-> value]
               /\ pc' = "idle"
          ELSE /\ sk' = [sk EXCEPT !.reads = @ + 1, !.seen = Append(@, line)]
               /\ UNCHANGED <<pc, ret>>
  /\ UNCHANGED <<call, wire, outstanding, cache, machine, sc, req>>

\* The deadline has passed: the statement after the loop returns.
telemetry_deadline ==
  /\ pc = "telemetry_read"
  /\ ~telemetry_continues(sk.reads, call.timeout)
  /\ ret' = [kind |-> "return", value |-> telemetry_query(call, <<>>)]
  /\ pc' = "idle"
  /\ UNCHANGED <<call, wire, outstanding, cache, machine, sc, sk, req>>

(* ----------------------- calibration.move_until_limit_fast (rough, X) *)
DirectionArgs == {"+", "-"}
Signed(direction, d) == IF direction = "+" THEN d ELSE 0 - d
\* distance = (elapsed * feed) / 60.0 mm, elapsed in seconds.
Distance(elapsed, feed) == (elapsed * feed * 10) \div 60

move_until_limit_fast_call ==
  /\ pc = "idle"
  /\ \E direction \in DirectionArgs, switch_id \in SwitchIdArgs :
       /\ call' = [name |-> "move_until_limit_fast", direction |-> direction,
                   switch_id |-> switch_id, max_distance |-> 10000, feed |-> 800]
       /\ Begin(<<move_relative(Some(Signed(direction, 10000)), None, None, Some(800))>>)
  /\ sk' = NewSk
  /\ sc' = NoSc
  /\ ret' = NoRet
  /\ pc' = "fast_poll"
  /\ UNCHANGED cache
  /\ UNCHANGED req

\* One pass of the while True loop: a 10 ms telemetry window.  The clock is
\* read in steps of 3 s and is not followed past MaxElapsed steps; polls is
\* the parity of the number of passes made.
move_until_limit_fast_poll ==
  /\ pc = "fast_poll"
  /\ \E window \in Windows :
       LET response == get_switch_state(window, call.switch_id)
       IN IF response.state = 1
          THEN /\ sk' = [sk EXCEPT !.distance = Distance(sk.elapsed, call.feed),
                                   !.pressed = response.found /\ response.state = 1,
                                   !.found = response.found]
               /\ pc' = "fast_feed_hold"
          ELSE /\ sk' = [sk EXCEPT !.elapsed = Min(@ + 3, 3 * MaxElapsed),
                                   !.polls = (@ + 1) % 2,
                                   !.found = response.found]
               /\ pc' = "fast_poll"
  /\ UNCHANGED <<call, wire, outstanding, ret, cache, machine, sc>>
  /\ UNCHANGED req

\* Variant: the soft reset goes out before the feed hold.
move_until_limit_fast_reset_first ==
  /\ pc = "fast_feed_hold"
  /\ Emit(<<reset_grbl, feed_hold>>)
  /\ pc' = "fast_unlock"
  /\ UNCHANGED <<call, ret, cache, sc, sk>>
  /\ UNCHANGED req

move_until_limit_fast_feed_hold ==
  /\ pc = "fast_feed_hold"
  /\ Emit(<<feed_hold>>)
  /\ pc' = "fast_reset"
  /\ UNCHANGED <<call, ret, cache, sc, sk>>
  /\ UNCHANGED req

move_until_limit_fast_reset ==
  /\ pc = "fast_reset"
  /\ Emit(<<reset_grbl>>)
  /\ pc' = "fast_unlock"
  /\ UNCHANGED <<call, ret, cache, sc, sk>>
  /\ UNCHANGED req

move_until_limit_fast_unlock ==
  /\ pc = "fast_unlock"
  /\ Emit(<<unlock_alarm>>)
  /\ pc' = "fast_idle_delay"
  /\ UNCHANGED <<call, ret, cache, sc, sk>>
  /\ UNCHANGED req

\* grbl.set_setting(grbl_ser, "step_idle_delay", 255) with no connection,
\* a sleep, grbl_ser.read_all(), then return True, grbl_ser, distance.
move_until_limit_fast_return ==
  /\ pc = "fast_idle_delay"
  /\ EmitDrained(<<SettingLine(Val(KeyToSettingNum("step_idle_delay")), 255)>>)
  /\ ret' = [kind |-> "return", success |-> TRUE, distance |-> sk.distance]
  /\ pc' = "idle"
  /\ UNCHANGED <<call, cache, sc, sk>>
  /\ UNCHANGED req

(* --------------------- calibration.move_until_limit_fast_y (rough, Y+Z) *)
move_until_limit_fast_y_call ==
  /\ pc = "idle"
  /\ \E direction \in DirectionArgs, switch_ids \in SwitchIdsArgs :
       /\ call' = [name |-> "move_until_limit_fast_y", direction |-> direction,
                   switch_ids |-> switch_ids, max_distance |-> 10000, feed |-> 1200]
       /\ Begin(<<move_relative(None, Some(Signed(direction, 10000)), None, Some(1200))>>)
  /\ sk' = NewSk
  /\ sc' = NoSc
  /\ ret' = NoRet
  /\ pc' = "fast_y_poll"
  /\ UNCHANGED cache
  /\ UNCHANGED req

move_until_limit_fast_y_poll ==
  /\ pc = "fast_y_poll"
  /\ \E window \in Windows :
       LET pressed_switch_id == get_pressed_switch_id(window, call.switch_ids)
       IN IF ~IsNone(pressed_switch_id)
          THEN /\ sk' = [sk EXCEPT !.distance = Distance(sk.elapsed, call.feed),
                                   !.pressed = Val(pressed_switch_id) \in Range(call.switch_ids),
                                   !.found = TRUE]
               /\ pc' = "fast_y_feed_hold"
          ELSE /\ sk' = [sk EXCEPT !.elapsed = Min(@ + 3, 3 * MaxElapsed),
                                   !.polls = (@ + 1) % 2,
                                   !.found = FALSE]
               /\ pc' = "fast_y_poll"
  /\ UNCHANGED <<call, wire, outstanding, ret, cache, machine, sc>>
  /\ UNCHANGED req

move_until_limit_fast_y_feed_hold ==
  /\ pc = "fast_y_feed_hold"
  /\ Emit(<<feed_hold>>)
  /\ pc' = "fast_y_reset"
  /\ UNCHANGED <<call, ret, cache, sc, sk>>
  /\ UNCHANGED req

move_until_limit_fast_y_reset ==
  /\ pc = "fast_y_reset"
  /\ Emit(<<reset_grbl>>)
  /\ pc' = "fast_y_unlock"
  /\ UNCHANGED <<call, ret, cache, sc, sk>>
  /\ UNCHANGED req

move_until_limit_fast_y_unlock ==
  /\ pc = "fast_y_unlock"
  /\ Emit(<<unlock_alarm>>)
  /\ pc' = "fast_y_idle_delay"
  /\ UNCHANGED <<call, ret, cache, sc, sk>>
  /\ UNCHANGED req

move_until_limit_fast_y_return ==
  /\ pc = "fast_y_idle_delay"
  /\ EmitDrained(<<SettingLine(Val(KeyToSettingNum("step_idle_delay")), 255)>>)
  /\ ret' = [kind |-> "return", success |-> TRUE, distance |-> sk.distance]
  /\ pc' = "idle"
  /\ UNCHANGED <<call, cache, sc, sk>>
  /\ UNCHANGED req

(* --------------------------- calibration.move_until_limit (fine, X) *)
FineArgsX == {[step_size |-> 20, feed |-> 500], [step_size |-> 1, feed |-> 200]}
FineArgsY == {[step_size |-> 5, feed |-> 100], [step_size |-> 1, feed |-> 200]}

move_until_limit_call ==
  /\ pc = "idle"
  /\ \E direction \in DirectionArgs, switch_id \in SwitchIdArgs, a \in FineArgsX :
       call' = [name |-> "move_until_limit", direction |-> direction,
                switch_id |-> switch_id, step_size |-> a.step_size, feed |-> a.feed]
  /\ Begin(<<>>)
  /\ sk' = NewSk
  /\ sc' = NoSc
  /\ ret' = NoRet
  /\ pc' = "fine_poll"
  /\ UNCHANGED cache
  /\ UNCHANGED req

\* Variant: the step move is written before the poll is looked at.
move_until_limit_step_write_first ==
  /\ pc = "fine_poll"
  /\ sk.steps < MaxSteps
  /\ \E window \in Windows :
       LET response == get_switch_state(window, call.switch_id)
       IN /\ Emit(<<move_relative(Some(Signed(call.direction, call.step_size)),
                                   None, None, Some(call.feed))>>)
          /\ sk' = [sk EXCEPT !.steps = @ + 1,
                              !.distance = @ + call.step_size,
                              !.reads = 0,
                              !.pressed = response.state = 1,
                              !.found = response.found]
          /\ IF response.state = 1
             THEN /\ ret' = [kind |-> "return", success |-> TRUE,
                             distance |-> sk.distance + call.step_size]
                  /\ pc' = "idle"
             ELSE /\ pc' = "fine_wait"
                  /\ UNCHANGED ret
  /\ UNCHANGED <<call, cache, sc>>
  /\ UNCHANGED req

\* Top of the loop: the switch is polled; if it is not pressed the buffer is
\* reset and one step move is written.  No more than MaxSteps steps are
\* followed.
move_until_limit_step ==
  /\ pc = "fine_poll"
  /\ \E window \in Windows :
       LET response == get_switch_state(window, call.switch_id)
       IN IF response.state = 1
          THEN /\ ret' = [kind |-> "return", success |-> TRUE, distance |-> sk.distance]
               /\ pc' = "idle"
               /\ sk' = [sk EXCEPT !.pressed = TRUE, !.found = response.found]
               /\ UNCHANGED <<wire, outstanding, machine>>
          ELSE /\ sk.steps < MaxSteps
               /\ Emit(<<move_relative(Some(Signed(call.direction, call.step_size)),
                                        None, None, Some(call.feed))>>)
               /\ sk' = [sk EXCEPT !.steps = @ + 1,
                                   !.distance = @ + call.step_size,
                                   !.reads = 0,
                                   !.found = response.found]
               /\ pc' = "fine_wait"
               /\ UNCHANGED ret
  /\ UNCHANGED <<call, cache, sc>>
  /\ UNCHANGED req

\* Variant: alarm lines are not recognised.
move_until_limit_verdict_error_only(line) ==
  IF line = OkText THEN "ok"
  ELSE IF StartsWith(line, ErrorPrefix) THEN "error"
  ELSE "none"

\* What the confirmation loop makes of one lower-cased line.
move_until_limit_verdict(line) ==
  IF line = OkText THEN "ok"
  ELSE IF StartsWith(line, ErrorPrefix) \/ StartsWith(line, AlarmPrefix) THEN "error"
  ELSE "none"

\* One pass of the 2 s confirmation loop: a line is waiting, or none is.
move_until_limit_readline ==
  /\ pc = "fine_wait"
  /\ sk.reads < MaxReads
  /\ \E line_bytes \in RxLines :
       IF line_bytes = <<>>
       THEN /\ sk' = [sk EXCEPT !.reads = @ + 1]
            /\ UNCHANGED <<pc, ret, outstanding>>
       ELSE LET line == Lower(Strip(line_bytes))
                verdict == move_until_limit_verdict(line)
            IN /\ sk' = [sk EXCEPT !.reads = @ + 1, !.line = line]
               /\ pc' = CASE verdict = "ok" -> "fine_confirm"
                           [] verdict = "error" -> "idle"
                           [] OTHER -> pc
               /\ ret' = IF verdict = "error"
                         THEN [kind |-> "return", success |-> FALSE,
                               distance |-> sk.distance]
                         ELSE ret
               /\ outstanding' = IF verdict = "none" THEN outstanding ELSE 0
  /\ UNCHANGED <<call, wire, cache, machine, sc>>
  /\ UNCHANGED req

\* The confirmation deadline passes with no terminal line.
move_until_limit_deadline ==
  /\ pc = "fine_wait"
  /\ pc' = "fine_confirm"
  /\ outstanding' = 0
  /\ UNCHANGED <<call, wire, ret, cache, machine, sc, sk>>
  /\ UNCHANGED req

\* After the move time: the switch is polled a second time.
move_until_limit_confirm ==
  /\ pc = "fine_confirm"
  /\ \E window \in Windows :
       LET response == get_switch_state(window, call.switch_id)
       IN IF response.state = 1
          THEN /\ ret' = [kind |-> "return", success |-> TRUE, distance |-> sk.distance]
               /\ pc' = "idle"
               /\ sk' = [sk EXCEPT !.pressed = TRUE, !.found = response.found]
          ELSE /\ pc' = "fine_poll"
               /\ sk' = [sk EXCEPT !.found = response.found]
               /\ UNCHANGED ret
  /\ UNCHANGED <<call, wire, outstanding, cache, machine, sc>>
  /\ UNCHANGED req

(* ------------------------- calibration.move_until_limit_y (fine, Y+Z) *)
move_until_limit_y_call ==
  /\ pc = "idle"
  /\ \E direction \in DirectionArgs, switch_ids \in SwitchIdsArgs, a \in FineArgsY :
       call' = [name |-> "move_until_limit_y", direction |-> direction,
                switch_ids |-> switch_ids, step_size |-> a.step_size, feed |-> a.feed]
  /\ Begin(<<>>)
  /\ sk' = NewSk
  /\ sc' = NoSc
  /\ ret' = NoRet
  /\ pc' = "fine_y_poll"
  /\ UNCHANGED cache
  /\ UNCHANGED req

\* Variant: the step is not followed by the confirmation wait.
move_until_limit_y_step_no_wait ==
  /\ pc = "fine_y_poll"
  /\ \E window \in Windows :
       LET pressed_switch_id == get_pressed_switch_id(window, call.switch_ids)
       IN IF ~IsNone(pressed_switch_id)
          THEN /\ ret' = [kind |-> "return", success |-> TRUE, distance |-> sk.distance]
               /\ pc' = "idle"
               /\ sk' = [sk EXCEPT !.pressed = TRUE, !.found = TRUE]
               /\ UNCHANGED <<wire, outstanding, machine>>
          ELSE /\ sk.steps < MaxSteps
               /\ Emit(<<move_relative(None, Some(Signed(call.direction, call.step_size)),
                                        None, Some(call.feed))>>)
               /\ sk' = [sk EXCEPT !.steps = @ + 1,
                                   !.distance = @ + call.step_size,
                                   !.reads = 0,
                                   !.found = FALSE]
               /\ pc' = "fine_y_poll"
               /\ UNCHANGED ret
  /\ UNCHANGED <<call, cache, sc>>
  /\ UNCHANGED req

\* Top of the loop: the switches are polled; if none is pressed the buffer
\* is reset and one step move is written.
move_until_limit_y_step ==
  /\ pc = "fine_y_poll"
  /\ \E window \in Windows :
       LET pressed_switch_id == get_pressed_switch_id(window, call.switch_ids)
       IN IF ~IsNone(pressed_switch_id)
          THEN /\ ret' = [kind |-> "return", success |-> TRUE, distance |-> sk.distance]
               /\ pc' = "idle"
               /\ sk' = [sk EXCEPT !.pressed = TRUE, !.found = TRUE]
               /\ UNCHANGED <<wire, outstanding, machine>>
          ELSE /\ sk.steps < MaxSteps
               /\ Emit(<<move_relative(None, Some(Signed(call.direction, call.step_size)),
                                        None, Some(call.feed))>>)
               /\ sk' = [sk EXCEPT !.steps = @ + 1,
                                   !.distance = @ + call.step_size,
                                   !.reads = 0,
                                   !.found = FALSE]
               /\ pc' = "fine_y_wait"
               /\ UNCHANGED ret
  /\ UNCHANGED <<call, cache, sc>>
  /\ UNCHANGED req

move_until_limit_y_verdict(line) ==
  IF line = OkText THEN "ok"
  ELSE IF StartsWith(line, ErrorPrefix) \/ StartsWith(line, AlarmPrefix) THEN "error"
  ELSE "none"

move_until_limit_y_readline ==
  /\ pc = "fine_y_wait"
  /\ sk.reads < MaxReads
  /\ \E line_bytes \in RxLines :
       IF line_bytes = <<>>
       THEN /\ sk' = [sk EXCEPT !.reads = @ + 1]
            /\ UNCHANGED <<pc, ret, outstanding>>
       ELSE LET line == Lower(Strip(line_bytes))
                verdict == move_until_limit_y_verdict(line)
            IN /\ sk' = [sk EXCEPT !.reads = @ + 1, !.line = line]
               /\ pc' = CASE verdict = "ok" -> "fine_y_poll"
                           [] verdict = "error" -> "idle"
                           [] OTHER -> pc
               /\ ret' = IF verdict = "error"
                         THEN [kind |-> "return", success |-> FALSE,
                               distance |-> sk.distance]
                         ELSE ret
               /\ outstanding' = IF verdict = "none" THEN outstanding ELSE 0
  /\ UNCHANGED <<call, wire, cache, machine, sc>>
  /\ UNCHANGED req

move_until_limit_y_deadline ==
  /\ pc = "fine_y_wait"
  /\ pc' = "fine_y_poll"
  /\ outstanding' = 0
  /\ UNCHANGED <<call, wire, ret, cache, machine, sc, sk>>
  /\ UNCHANGED req

(* ------------------------------------ calibration.outline_workspace *)
OutlineFeedArgs == {6000, 20000}

\* Variant: the corner moves are written without the mode command.
outline_workspace_lines_no_mode(x_length, y_length, margin, feed) ==
  LET half_x == (x_length \div 2) - margin
      half_y == (y_length \div 2) - margin
  IN << move_absolute(Some(0 - half_x), Some(0 - half_y), None, Some(feed)),
        move_absolute(Some(half_x), Some(0 - half_y), None, Some(feed)),
        move_absolute(Some(half_x), Some(half_y), None, Some(feed)),
        move_absolute(Some(0 - half_x), Some(half_y), None, Some(feed)),
        move_absolute(Some(0 - half_x), Some(0 - half_y), None, Some(feed)),
        move_absolute(Some(0), Some(0), None, Some(feed)) >>

outline_workspace_lines(x_length, y_length, margin, feed) ==
  LET half_x == (x_length \div 2) - margin
      half_y == (y_length \div 2) - margin
  IN << set_mode_absolute,
        move_absolute(Some(0 - half_x), Some(0 - half_y), None, Some(feed)),
        move_absolute(Some(half_x), Some(0 - half_y), None, Some(feed)),
        move_absolute(Some(half_x), Some(half_y), None, Some(feed)),
        move_absolute(Some(0 - half_x), Some(half_y), None, Some(feed)),
        move_absolute(Some(0 - half_x), Some(0 - half_y), None, Some(feed)),
        move_absolute(Some(0), Some(0), None, Some(feed)) >>

\* outline_workspace(grbl_ser, 291.0, 899.0, margin=10.0, feed): every write
\* is followed only by a sleep and a drain of the input buffer.
outline_workspace ==
  /\ pc = "idle"
  /\ \E feed \in OutlineFeedArgs :
       /\ call' = [name |-> "outline_workspace", x_length |-> 2910,
                   y_length |-> 8990, margin |-> 100, feed |-> feed]
       /\ BeginDrained(outline_workspace_lines(2910, 8990, 100, feed))
  /\ ret' = [kind |-> "return"]
  /\ sc' = NoSc /\ sk' = NoSk
  /\ UNCHANGED <<pc, cache>>
  /\ UNCHANGED req

(* ------------------ calibration.home_x_axis_fast / home_y_axis_fast *)
\* Variant: the calibration is pushed before the call fails.
home_x_axis_fast_calibrating ==
  /\ pc = "idle"
  /\ call' = [name |-> "home_x_axis_fast"]
  /\ Begin(<<SettingLine(100, 255)>>)
  /\ cache' = [cache EXCEPT !["x_steps_per_mm"] = Some(255)]
  /\ ret' = [kind |-> "raise", exc |-> "UnboundLocalError", reached |-> <<>>]
  /\ sc' = NoSc /\ sk' = NoSk
  /\ UNCHANGED pc
  /\ UNCHANGED req

\* grbl_ser is assigned further down in the function body (line 210), which
\* makes it a local name; its first use (line 199) comes before any
\* assignment, so the call raises UnboundLocalError inside the try block,
\* which logs and re-raises.  Nothing is written to either channel.
\* reached lists the phases of the homing the call has entered.
home_x_axis_fast ==
  /\ pc = "idle"
  /\ call' = [name |-> "home_x_axis_fast"]
  /\ Begin(<<>>)
  /\ ret' = [kind |-> "raise", exc |-> "UnboundLocalError", reached |-> <<>>]
  /\ sc' = NoSc /\ sk' = NoSk
  /\ UNCHANGED <<pc, cache>>
  /\ UNCHANGED req

\* The same at line 382 (grbl_ser is assigned at line 396).
home_y_axis_fast ==
  /\ pc = "idle"
  /\ call' = [name |-> "home_y_axis_fast"]
  /\ Begin(<<>>)
  /\ ret' = [kind |-> "raise", exc |-> "UnboundLocalError", reached |-> <<>>]
  /\ sc' = NoSc /\ sk' = NoSk
  /\ UNCHANGED <<pc, cache>>
  /\ UNCHANGED req

\* Variant: the failure of the Y calibration is swallowed and the origin is
\* set all the same.
home_all_after_failure ==
  /\ pc = "idle"
  /\ \E outline \in BOOLEAN : call' = [name |-> "home_all", outline |-> outline]
  /\ Begin(<<set_mode_absolute, set_work_coordinate_offset(Some(0), Some(0), None)>>)
  /\ ret' = [kind |-> "raise", exc |-> "UnboundLocalError"]
  /\ sc' = NoSc /\ sk' = NoSk
  /\ UNCHANGED <<pc, cache>>
  /\ UNCHANGED req

\* home_all calls home_y_axis_fast first; its exception is logged and
\* re-raised, so the X calibration, the G92 and the outline do not run.
home_all ==
  /\ pc = "idle"
  /\ \E outline \in BOOLEAN : call' = [name |-> "home_all", outline |-> outline]
  /\ Begin(<<>>)
  /\ ret' = [kind |-> "raise", exc |-> "UnboundLocalError"]
  /\ sc' = NoSc /\ sk' = NoSk
  /\ UNCHANGED <<pc, cache>>
  /\ UNCHANGED req

(* --------------------------------------------- api/routers: handlers *)
\* Lines of a G-code stream, as character sequences.
GcodeLines ==
  { <<"M", "3", " ", "S", "2", "5", "5", ";">>,
    <<"M", "3", ";">>,
    <<"m", "3", " ", " ", "s", "8", "0">>,
    <<"G", "9", "0">>,
    <<"G", "9", "1">>,
    <<"G", "1", " ", "X", "1", "0", " ", "Y", "2", "0", ";">> }
MaxStream == 2
Streams == SeqsUpTo(GcodeLines, MaxStream)
\* (origin_x, origin_y)
OriginArgs == {<<0, 0>>, <<15, 5>>}
LaserPowerArgs == {-1, 0, 1000, 1001}

UpperChar(c) ==
  CASE c = "m" -> "M" [] c = "s" -> "S" [] c = "g" -> "G" [] c = "x" -> "X"
    [] c = "y" -> "Y" [] OTHER -> c
Upper(s) == [i \in 1..Len(s) |-> UpperChar(s[i])]
Whitespace == {" "}
DigitChars == <<"0", "1", "2", "3", "4", "5", "6", "7", "8", "9">>
\* p in s
Contains(s, p) == \E i \in 1..(Len(s) - Len(p) + 1) : SubSeq(s, i, i + Len(p) - 1) = p
\* The number of characters from index i on that are (inside = TRUE) or are
\* not (inside = FALSE) in set.
RECURSIVE CountWhile(_, _, _, _)
CountWhile(s, i, set, inside) ==
  IF i <= Len(s) /\ ((s[i] \in set) = inside)
  THEN 1 + CountWhile(s, i + 1, set, inside) ELSE 0

\* str(n) for n >= 0.
RECURSIVE Str(_)
Str(n) == IF n < 10 THEN <<DigitChars[n + 1]>>
          ELSE Str(n \div 10) \o <<DigitChars[(n % 10) + 1]>>

\* The length of the match of M3\s+S\d+ (ignoring case) at the start of s,
\* 0 if there is none.
MatchM3S(s) ==
  IF Len(s) >= 2 /\ Upper(SubSeq(s, 1, 2)) = <<"M", "3">>
  THEN LET ws == CountWhile(s, 3, Whitespace, TRUE)
           ds == IF 3 + ws <= Len(s) /\ UpperChar(s[3 + ws]) = "S"
                 THEN CountWhile(s, 4 + ws, Range(DigitChars), TRUE) ELSE 0
       IN IF ws > 0 /\ ds > 0 THEN 3 + ws + ds ELSE 0
  ELSE 0

\* re.sub(r'M3\s+S\d+', repl, s, flags=re.IGNORECASE)
RECURSIVE SubM3S(_, _)
SubM3S(s, repl) ==
  IF s = <<>> THEN <<>>
  ELSE IF MatchM3S(s) > 0
       THEN repl \o SubM3S(SubSeq(s, MatchM3S(s) + 1, Len(s)), repl)
       ELSE <<Head(s)>> \o SubM3S(Tail(s), repl)

\* re.sub(r'M3', repl, s, flags=re.IGNORECASE)
RECURSIVE SubM3(_, _)
SubM3(s, repl) ==
  IF s = <<>> THEN <<>>
  ELSE IF Len(s) >= 2 /\ Upper(SubSeq(s, 1, 2)) = <<"M", "3">>
       THEN repl \o SubM3(SubSeq(s, 3, Len(s)), repl)
       ELSE <<Head(s)>> \o SubM3(Tail(s), repl)

\* line.split(): the parts of a line between runs of whitespace.
RECURSIVE Split(_)
Split(s) ==
  LET t == LStrip(s)
      n == CountWhile(t, 1, Whitespace, FALSE)
  IN IF t = <<>> THEN <<>>
     ELSE <<SubSeq(t, 1, n)>> \o Split(SubSeq(t, n + 1, Len(t)))
RECURSIVE RStripSemi(_)
RStripSemi(s) ==
  IF s # <<>> /\ s[Len(s)] = ";" THEN RStripSemi(SubSeq(s, 1, Len(s) - 1)) ELSE s
\* The number a digit sequence denotes; -1 if it is not one.
RECURSIVE ParseNat(_)
ParseNat(ds) ==
  IF ds = <<>> \/ ds[Len(ds)] \notin Range(DigitChars) THEN -1
  ELSE LET d == (CHOOSE k \in 1..10 : DigitChars[k] = ds[Len(ds)]) - 1
       IN IF Len(ds) = 1 THEN d
          ELSE IF ParseNat(SubSeq(ds, 1, Len(ds) - 1)) < 0 THEN -1
               ELSE 10 * ParseNat(SubSeq(ds, 1, Len(ds) - 1)) + d
\* Variant: the S parameter is injected without looking for one.
processed_line_injecting(line, laser_power) ==
  IF Contains(Upper(line), <<"M", "3">>)
  THEN SubM3(line, <<"M", "3", " ", "S">> \o Str(laser_power))
  ELSE line

\* One pass of the loop at lines 87-94.
processed_line(line, laser_power) ==
  IF Contains(Upper(line), <<"M", "3">>)
  THEN IF Contains(Upper(line), <<"S">>)
       THEN SubM3S(line, <<"M", "3", " ", "S">> \o Str(laser_power))
       ELSE SubM3(line, <<"M", "3", " ", "S">> \o Str(laser_power))
  ELSE line

\* svg_to_gcode_endpoint up to the conversion: 400 for a file name that is
\* not *.svg; otherwise the converter's lines are read (svg_readlines).
svg_to_gcode_endpoint ==
  /\ pc = "idle"
  /\ \E is_svg \in BOOLEAN, laser_power \in LaserPowerArgs,
        origin \in OriginArgs :
       /\ call' = [name |-> "svg_to_gcode_endpoint", is_svg |-> is_svg,
                   laser_power |-> laser_power, stream |-> <<>>,
                   origin_x |-> origin[1], origin_y |-> origin[2]]
       /\ ret' = IF ~is_svg
                 THEN [kind |-> "raise", exc |-> "HTTPException", status_code |-> 400]
                 ELSE NoRet
       /\ pc' = IF ~is_svg THEN "idle" ELSE "svg_readlines"
  /\ Begin(<<>>)
  /\ sc' = NoSc /\ sk' = NoSk
  /\ UNCHANGED cache
  /\ UNCHANGED req

\* f.readlines(): one more line of the generated G-code.
svg_readlines ==
  /\ pc = "svg_readlines"
  /\ Len(call.stream) < MaxStream
  /\ \E line \in GcodeLines : call' = [call EXCEPT !.stream = Append(@, line)]
  /\ UNCHANGED <<pc, wire, outstanding, ret, cache, machine, sc, sk, req>>

\* The rest of the try block: the laser_power check raises HTTPException(400),
\* which the final except Exception turns into 500; past it the M3 lines are
\* rewritten (sk.gcode_lines) and then grbl.query_position (line 101), a
\* name the grbl module does not define, raises AttributeError, also 500.
\* No line of the stream is sent.
svg_replay ==
  /\ pc = "svg_readlines"
  /\ sk' = IF call.laser_power >= 0 /\ call.laser_power <= 1000
           THEN [steps |-> 0,
                 gcode_lines |-> [i \in 1..Len(call.stream) |->
                                    processed_line(call.stream[i], call.laser_power)]]
           ELSE NoSk
  /\ ret' = [kind |-> "raise", exc |-> "HTTPException", status_code |-> 500]
  /\ pc' = "idle"
  /\ UNCHANGED <<call, wire, outstanding, cache, machine, sc, req>>

Next ==
  \/ MoveRelative
  \/ MoveAbsolute
  \/ SetWorkCoordinateOffset
  \/ update_setting_call
  \/ update_setting_cache
  \/ set_setting_call
  \/ send_command_call
  \/ send_command_loop
  \/ send_command_readline
  \/ send_command_attempt_end
  \/ telemetry_call
  \/ telemetry_readline
  \/ telemetry_deadline
  \/ move_until_limit_fast_call
  \/ move_until_limit_fast_poll
  \/ move_until_limit_fast_feed_hold
  \/ move_until_limit_fast_reset
  \/ move_until_limit_fast_unlock
  \/ move_until_limit_fast_return
  \/ move_until_limit_fast_y_call
  \/ move_until_limit_fast_y_poll
  \/ move_until_limit_fast_y_feed_hold
  \/ move_until_limit_fast_y_reset
  \/ move_until_limit_fast_y_unlock
  \/ move_until_limit_fast_y_return
  \/ move_until_limit_call
  \/ move_until_limit_step
  \/ move_until_limit_readline
  \/ move_until_limit_deadline
  \/ move_until_limit_confirm
  \/ move_until_limit_y_call
  \/ move_until_limit_y_step
  \/ move_until_limit_y_readline
  \/ move_until_limit_y_deadline
  \/ outline_workspace
  \/ home_x_axis_fast
  \/ home_y_axis_fast
  \/ home_all
  \/ svg_to_gcode_endpoint
  \/ svg_readlines
  \/ svg_replay

Spec == Init /\ [][Next]_vars

\* The single thread keeps running: a call in progress takes its next step.
Step == pc # "idle" /\ Next
FairSpec == Spec /\ WF_vars(Step)
(* ================================================ the ASGI application *)
\* The routes that asgi.factory mounts (the operations router is not among
\* them), by the name of their handler.
Endpoints == {"home_all_endpoint", "home_x_endpoint", "home_y_endpoint",
              "update_steps_per_mm_endpoint", "jog_endpoint",
              "return_to_home_endpoint"}
ServerKeys == {"x_steps_per_mm", "y_steps_per_mm"}

\* The application after lifespan start-up: no request yet.
ServerInit ==
  /\ pc = "idle"
  /\ call = NoCall
  /\ wire = <<>>
  /\ ret = NoRet
  /\ cache = [k \in ServerKeys |-> IF k = "x_steps_per_mm" THEN Some(250) ELSE Some(40)]
  /\ machine = [k \in ServerKeys |-> None]
  /\ sc = NoSc
  /\ sk = NoSk
  /\ outstanding = 0
  /\ req = [i \in RequestIds |-> NoReq]

Pending(i, endpoint) == req[i].state = "pending" /\ req[i].endpoint = endpoint
Responded(i, status_code) ==
  req' = [req EXCEPT ![i] = [state |-> "done", endpoint |-> req[i].endpoint,
                             status_code |-> status_code]]

\* Variant: the handlers are plain functions, which the framework runs on
\* worker threads, so that one is started while another is still running.
EventLoopFree_threadpool(i) == TRUE

\* Every handler is a coroutine function (async def) whose body never
\* awaits: once the event loop has started it, the loop runs nothing else
\* until it returns.
EventLoopFree(i) == \A j \in RequestIds \ {i} : req[j].state # "running"

\* A client sends a request; it waits for the event loop.
submit ==
  /\ \E i \in RequestIds, endpoint \in Endpoints :
       /\ req[i].state \in {"none", "done"}
       /\ req' = [req EXCEPT ![i] = [state |-> "pending", endpoint |-> endpoint]]
  /\ UNCHANGED <<pc, call, wire, ret, cache, machine, sc, sk, outstanding>>

\* calibration.home_all raises (UnboundLocalError from home_y_axis_fast);
\* except Exception turns it into HTTPException(500).
home_all_endpoint ==
  /\ \E i \in RequestIds :
       /\ Pending(i, "home_all_endpoint")
       /\ EventLoopFree(i)
       /\ Responded(i, 500)
  /\ BeginDrained(<<>>)
  /\ UNCHANGED <<pc, call, ret, cache, sc, sk>>

home_x_endpoint ==
  /\ \E i \in RequestIds :
       /\ Pending(i, "home_x_endpoint")
       /\ EventLoopFree(i)
       /\ Responded(i, 500)
  /\ BeginDrained(<<>>)
  /\ UNCHANGED <<pc, call, ret, cache, sc, sk>>

home_y_endpoint ==
  /\ \E i \in RequestIds :
       /\ Pending(i, "home_y_endpoint")
       /\ EventLoopFree(i)
       /\ Responded(i, 500)
  /\ BeginDrained(<<>>)
  /\ UNCHANGED <<pc, call, ret, cache, sc, sk>>

\* jog_endpoint: 400 when both axes are missing; otherwise the first
\* statement of the try block is grbl.query_position, a name the grbl module
\* does not define: AttributeError, turned into HTTP 500.
\* Variant: the position is queried ('?') before the request is looked at.
jog_endpoint_query_first ==
  /\ \E i \in RequestIds, x \in XArgs, y \in YArgs :
       /\ Pending(i, "jog_endpoint")
       /\ EventLoopFree(i)
       /\ req' = [req EXCEPT ![i] =
                   [state |-> "done", endpoint |-> "jog_endpoint", x |-> x, y |-> y,
                    status_code |-> IF IsNone(x) /\ IsNone(y) THEN 400 ELSE 500]]
  /\ BeginDrained(<< <<W("?", 0)>> >>)
  /\ UNCHANGED <<pc, call, ret, cache, sc, sk>>

\* The response keeps the request's x and y beside the status code.
jog_endpoint ==
  /\ \E i \in RequestIds, x \in XArgs, y \in YArgs :
       /\ Pending(i, "jog_endpoint")
       /\ EventLoopFree(i)
       /\ req' = [req EXCEPT ![i] =
                   [state |-> "done", endpoint |-> "jog_endpoint", x |-> x, y |-> y,
                    status_code |-> IF IsNone(x) /\ IsNone(y) THEN 400 ELSE 500]]
  /\ BeginDrained(<<>>)
  /\ UNCHANGED <<pc, call, ret, cache, sc, sk>>

\* return_to_home_endpoint: grbl.query_position again, HTTP 500.
return_to_home_endpoint ==
  /\ \E i \in RequestIds :
       /\ Pending(i, "return_to_home_endpoint")
       /\ EventLoopFree(i)
       /\ Responded(i, 500)
  /\ BeginDrained(<<>>)
  /\ UNCHANGED <<pc, call, ret, cache, sc, sk>>

\* The settings a steps-per-mm request asks for, in the handler's order.
StepsTodo(x, y) ==
  (IF IsNone(x) THEN <<>> ELSE << <<"x_steps_per_mm", Val(x)>> >>)
    \o (IF IsNone(y) THEN <<>> ELSE << <<"y_steps_per_mm", Val(y)>> >>)

\* update_steps_per_mm_endpoint: 400 when no axis is given; otherwise one
\* update_setting per axis given (z is left out of the requests followed).
update_steps_per_mm_endpoint ==
  /\ \E i \in RequestIds, x \in {None, Some(260)}, y \in {None, Some(41)} :
       /\ Pending(i, "update_steps_per_mm_endpoint")
       /\ EventLoopFree(i)
       /\ IF IsNone(x) /\ IsNone(y)
          THEN Responded(i, 400)
          ELSE req' = [req EXCEPT ![i] = [state |-> "running",
                                         endpoint |-> req[i].endpoint,
                                         todo |-> StepsTodo(x, y),
                                         at |-> "write", written |-> 0]]
  /\ Begin(<<>>)
  /\ UNCHANGED <<pc, call, ret, cache, sc, sk>>

\* update_setting: the write of the next setting, before the 0.2 s sleep.
update_steps_per_mm_write ==
  /\ \E i \in RequestIds :
       /\ req[i].state = "running"
       /\ req[i].at = "write"
       /\ Emit(<<SettingLine(Val(KeyToSettingNum(Head(req[i].todo)[1])),
                             Head(req[i].todo)[2])>>)
       /\ req' = [req EXCEPT ![i].at = "cache", ![i].written = @ + 1]
  /\ UNCHANGED <<pc, call, ret, cache, sc, sk>>

\* update_setting: the cache follows; after the last one the response is
\* built from the cache.
update_steps_per_mm_cache ==
  /\ \E i \in RequestIds :
       /\ req[i].state = "running"
       /\ req[i].at = "cache"
       /\ cache' = set_setting_value(cache, Head(req[i].todo)[1], Head(req[i].todo)[2])
       /\ IF Tail(req[i].todo) = <<>>
          THEN Responded(i, 200)
          ELSE req' = [req EXCEPT ![i].at = "write", ![i].todo = Tail(@)]
  /\ UNCHANGED <<pc, call, wire, ret, machine, sc, sk, outstanding>>

ServerNext ==
  \/ submit
  \/ home_all_endpoint
  \/ home_x_endpoint
  \/ home_y_endpoint
  \/ jog_endpoint
  \/ return_to_home_endpoint
  \/ update_steps_per_mm_endpoint
  \/ update_steps_per_mm_write
  \/ update_steps_per_mm_cache

ServerSpec == ServerInit /\ [][ServerNext]_vars

(* ============================================ the setting table lookups *)
\* The two tables applied to every entry, and each result looked up in the
\* other table (trip "back"; origin is the entry the trip started from).
TableInit ==
  /\ pc = "idle"
  /\ call = NoCall
  /\ ret = NoRet
  /\ wire = <<>>
  /\ cache = [k \in CachedKeys |-> None]
  /\ machine = [k \in CachedKeys |-> None]
  /\ sc = NoSc
  /\ sk = NoSk
  /\ outstanding = 0
  /\ req = [i \in RequestIds |-> NoReq]

key_to_index ==
  /\ \E key \in SettingKeys :
       /\ call' = [name |-> "key_to_index", trip |-> "out", key |-> key]
       /\ ret' = [kind |-> "return", value |-> KeyToSettingNum(key)]
  /\ UNCHANGED <<pc, wire, cache, machine, sc, sk, outstanding, req>>

index_to_key ==
  /\ \E setting_num \in DOMAIN SETTING_NUM_TO_KEY :
       /\ call' = [name |-> "index_to_key", trip |-> "out", setting_num |-> setting_num]
       /\ ret' = [kind |-> "return", value |-> SettingNumToKey(setting_num)]
  /\ UNCHANGED <<pc, wire, cache, machine, sc, sk, outstanding, req>>

key_to_index_back ==
  /\ call.name = "index_to_key" /\ call.trip = "out"
  /\ call' = [name |-> "key_to_index", trip |-> "back", key |-> Val(ret.value),
              origin |-> call.setting_num]
  /\ ret' = [kind |-> "return", value |-> KeyToSettingNum(Val(ret.value))]
  /\ UNCHANGED <<pc, wire, cache, machine, sc, sk, outstanding, req>>

index_to_key_back ==
  /\ call.name = "key_to_index" /\ call.trip = "out"
  /\ call' = [name |-> "index_to_key", trip |-> "back", setting_num |-> Val(ret.value),
              origin |-> call.key]
  /\ ret' = [kind |-> "return", value |-> SettingNumToKey(Val(ret.value))]
  /\ UNCHANGED <<pc, wire, cache, machine, sc, sk, outstanding, req>>

TableNext ==
  \/ key_to_index
  \/ index_to_key
  \/ key_to_index_back
  \/ index_to_key_back

TableSpec == TableInit /\ [][TableNext]_vars

(* ================================ the connection to the GRBL controller *)
\* create_grbl_connection and query_grbl_position.  sk.grbl_ser is the
\* channel: "unbound" before serial.Serial has returned, then "open" or
\* "closed".  Setting and position values are in thousandths.
MaxLines == 2
\* Lines of a reply to '$$'.
SettingsLines ==
  << <<"$", "1", "0", "0", "=", "2", "5", "0", ".", "0", "0", "0">>,
     <<"$", "1", "=", "2", "5">>,
     <<"$", "1", "=", "2", "5", "5", " ", "(", "m", "s", ")">>,
     <<" ", "$", "1", "0", "0", "=", "2", "6", "0", ".", "5", " ">>,
     <<"o", "k">>,
     <<"$", "x", "=", "1">>,
     <<"$", "1", "0", "0", "=", "a">>,
     <<"$", "1", "0", "0">>,
     <<"1", "0", "0", "=", "2">> >>
SettingsTexts == SeqsUpTo(Range(SettingsLines), MaxLines)
\* Replies to '?' as read_all() returns them; the empty one is a timeout.
Responses ==
  << <<"<", "I", "d", "l", "e", "|", "M", "P", "o", "s", ":", "1", ".", "5", ",", "2", ",", "3", "|", "F", "S", ":", "0", ",", "0", ">">>,
     <<"<", "I", "d", "l", "e", ",", "M", "P", "o", "s", ":", "4", ",", "-", "2", ",", "3", ",", "W", "P", "o", "s", ":", "0", ",", "0", ",", "0", ">">>,
     <<"<", "I", "d", "l", "e", "|", "W", "P", "o", "s", ":", "1", ",", "2", ",", "3", ">">>,
     <<"o", "k">>,
     <<>>,
     <<"<", "R", "u", "n", "|", "M", "P", "o", "s", ":", "1", ",", "2", ">">>,
     <<"<", "R", "u", "n", "|", "M", "P", "o", "s", ":", "a", ",", "2", ",", "3", ",", ">">> >>

\* s.find(c) + 1: 0 when c is not in s.
IndexOf(s, c) == FirstIndex({i \in 1..Len(s) : s[i] = c})
\* s.find(p) + 1 for a string p.
Find(s, p) == FirstIndex({i \in 1..(Len(s) - Len(p) + 1) : SubSeq(s, i, i + Len(p) - 1) = p})
\* s.split(c)
RECURSIVE SplitOn(_, _)
SplitOn(s, c) ==
  IF IndexOf(s, c) = 0 THEN <<s>>
  ELSE <<SubSeq(s, 1, IndexOf(s, c) - 1)>> \o SplitOn(SubSeq(s, IndexOf(s, c) + 1, Len(s)), c)
IsDigits(s) == s # <<>> /\ \A i \in 1..Len(s) : s[i] \in Range(DigitChars)
\* int(s): None for ValueError.
ParseInt(s) == IF IsDigits(Strip(s)) THEN Some(ParseNat(Strip(s))) ELSE None
\* float(s), in thousandths: None for ValueError.
ParseFloat(s) ==
  LET t == Strip(s)
      neg == t # <<>> /\ t[1] = "-"
      u == IF neg THEN Tail(t) ELSE t
      dot == IndexOf(u, ".")
      ip == IF dot = 0 THEN u ELSE SubSeq(u, 1, dot - 1)
      fp == IF dot = 0 THEN <<>> ELSE SubSeq(u, dot + 1, Len(u))
      fp3 == SubSeq(fp \o <<"0", "0", "0">>, 1, 3)
  IN IF /\ ip # <<>> \/ fp # <<>>
        /\ ip = <<>> \/ IsDigits(ip)
        /\ fp = <<>> \/ IsDigits(fp)
     THEN LET mag == (IF ip = <<>> THEN 0 ELSE ParseNat(ip)) * 1000 + ParseNat(fp3)
          IN Some(IF neg THEN 0 - mag ELSE mag)
     ELSE None

\* Variant: the text after the '=' is not cut at '('.
parse_settings_line_with_comment(line) ==
  LET l == Strip(line)
  IN IF l = <<>> \/ l[1] # "$" THEN None
     ELSE IF IndexOf(l, "=") = 0 THEN None
     ELSE LET parts == SplitOn(l, "=")
              setting_num == ParseInt(Tail(parts[1]))
              value == ParseFloat(Strip(parts[2]))
          IN IF IsNone(setting_num) \/ IsNone(value) THEN None
             ELSE Some(<<Val(setting_num), Val(value)>>)

\* One pass of the loop of parse_settings: the entry the line adds, None
\* when the line is skipped (continue, or ValueError / IndexError caught).
parse_settings_line(line) ==
  LET l == Strip(line)
  IN IF l = <<>> \/ l[1] # "$" THEN None
     ELSE IF IndexOf(l, "=") = 0 THEN None
     ELSE LET parts == SplitOn(l, "=")
              value_part == Strip(SplitOn(parts[2], "(")[1])
              setting_num == ParseInt(Tail(parts[1]))
              value == ParseFloat(value_part)
          IN IF IsNone(setting_num) \/ IsNone(value) THEN None
             ELSE Some(<<Val(setting_num), Val(value)>>)

\* parse_settings: the dict after the loop over the lines of the text.
RECURSIVE parse_settings_loop(_, _)
parse_settings_loop(settings, lines) ==
  IF lines = <<>> THEN settings
  ELSE LET entry == parse_settings_line(Head(lines))
       IN IF IsNone(entry) THEN parse_settings_loop(settings, Tail(lines))
          ELSE parse_settings_loop(
                 [n \in DOMAIN settings \cup {Val(entry)[1]} |->
                    IF n = Val(entry)[1] THEN Val(entry)[2] ELSE settings[n]],
                 Tail(lines))
parse_settings(settings_text) == parse_settings_loop(<<>>, settings_text)

\* GrblSettings.from_raw_settings, for the keys the model caches.
from_raw_settings(raw_settings) ==
  [k \in CachedKeys |->
     LET nums == {n \in DOMAIN raw_settings : SettingNumToKey(n) = Some(k)}
     IN IF nums = {} THEN None ELSE Some(raw_settings[CHOOSE n \in nums : TRUE])]

wake_up == <<W("CRLF", 0)>>
settings_query == <<W("$$", 0)>>
status_query == <<W("?", 0)>>

ConnectionInit ==
  /\ pc = "idle"
  /\ call = NoCall
  /\ wire = <<>>
  /\ ret = NoRet
  /\ cache = [k \in CachedKeys |-> None]
  /\ machine = [k \in CachedKeys |-> None]
  /\ sc = NoSc
  /\ sk = [grbl_ser |-> "unbound"]
  /\ outstanding = 0
  /\ req = [i \in RequestIds |-> NoReq]

\* Variant: the except clause does not close the channel.
close_on_failure_missing(grbl_ser) == grbl_ser

\* if 'grbl_ser' in locals(): grbl_ser.close()
close_on_failure(grbl_ser) == IF grbl_ser = "open" THEN "closed" ELSE grbl_ser

\* The except clause: close, then raise RuntimeError.
connect_failed ==
  /\ sk' = [grbl_ser |-> close_on_failure(sk.grbl_ser)]
  /\ ret' = [kind |-> "raise", exc |-> "RuntimeError"]
  /\ pc' = "idle"
  /\ UNCHANGED <<wire, cache>>

\* serial.Serial(port, 115200, timeout=1), which may raise.
create_grbl_connection ==
  /\ pc = "idle"
  /\ sk.grbl_ser # "open"
  /\ call' = [name |-> "create_grbl_connection"]
  /\ wire' = <<>>
  /\ \E opened \in BOOLEAN :
       IF opened
       THEN /\ sk' = [grbl_ser |-> "open"]
            /\ ret' = NoRet
            /\ pc' = "connect_wake"
       ELSE /\ sk' = [grbl_ser |-> "unbound"]
            /\ ret' = [kind |-> "raise", exc |-> "RuntimeError"]
            /\ pc' = "idle"
  /\ UNCHANGED <<cache, machine, sc, outstanding, req>>

\* The wake sequence: write, sleep, read_all; either call may raise.
create_grbl_connection_wake ==
  /\ pc = "connect_wake"
  /\ \/ /\ wire' = Append(wire, wake_up)
        /\ pc' = "connect_settings"
        /\ UNCHANGED <<ret, sk, cache>>
     \/ /\ connect_failed
     \/ /\ wire' = Append(wire, wake_up)
        /\ sk' = [grbl_ser |-> close_on_failure(sk.grbl_ser)]
        /\ ret' = [kind |-> "raise", exc |-> "RuntimeError"]
        /\ pc' = "idle"
        /\ UNCHANGED cache
  /\ UNCHANGED <<call, machine, sc, outstanding, req>>

\* query_settings, parse_settings, from_raw_settings and the return of the
\* connection; the round trip may raise after the write.
create_grbl_connection_settings ==
  /\ pc = "connect_settings"
  /\ wire' = Append(wire, settings_query)
  /\ \/ \E settings_text \in SettingsTexts :
          /\ sk' = [grbl_ser |-> sk.grbl_ser, settings_text |-> settings_text,
                    raw_settings |-> parse_settings(settings_text)]
          /\ cache' = from_raw_settings(parse_settings(settings_text))
          /\ ret' = [kind |-> "return"]
          /\ pc' = "idle"
     \/ /\ sk' = [grbl_ser |-> close_on_failure(sk.grbl_ser)]
        /\ ret' = [kind |-> "raise", exc |-> "RuntimeError"]
        /\ pc' = "idle"
        /\ UNCHANGED cache
  /\ UNCHANGED <<call, machine, sc, outstanding, req>>

\* The lifespan's shutdown closes the channel.
close_connection ==
  /\ pc = "idle"
  /\ sk.grbl_ser = "open"
  /\ call' = [name |-> "close"]
  /\ sk' = [grbl_ser |-> "closed"]
  /\ ret' = [kind |-> "return"]
  /\ wire' = <<>>
  /\ UNCHANGED <<pc, cache, machine, sc, outstanding, req>>

\* Variant: the input buffer is not reset before the query.
input_after_reset_kept(input) == input

\* grbl_ser.reset_input_buffer()
input_after_reset(input) == <<>>

\* The result dict of query_grbl_position for the text read.
position_result(response) ==
  LET lt == IndexOf(response, "<")
      gt == IndexOf(response, ">")
      framed == lt # 0 /\ gt # 0
      status_part == SubSeq(response, lt, gt)
      mpos == Find(response, <<"M", "P", "o", "s", ":">>)
      parts == SplitOn(SubSeq(response, mpos + 5, Len(response)), ",")
      tried == framed /\ mpos # 0 /\ Len(parts) >= 3
      x == IF tried THEN ParseFloat(parts[1]) ELSE None
      y == IF tried /\ ~IsNone(x) THEN ParseFloat(parts[2]) ELSE None
      z == IF tried /\ ~IsNone(y) THEN ParseFloat(parts[3]) ELSE None
  IN [x |-> x, y |-> y, z |-> z,
      status |-> IF framed THEN status_part ELSE <<"U", "n", "k", "n", "o", "w", "n">>,
      mode |-> IF framed /\ Contains(status_part, <<"G", "9", "1">>) THEN "Relative (G91)"
               ELSE IF framed /\ Contains(status_part, <<"G", "9", "0">>) THEN "Absolute (G90)"
               ELSE "Unknown",
      raw |-> response]

\* query_grbl_position up to the write of '?': stale is what the input
\* buffer holds when the call starts.
query_grbl_position ==
  /\ pc = "idle"
  /\ sk.grbl_ser = "open"
  /\ call' = [name |-> "query_grbl_position"]
  /\ \E stale \in Range(Responses) :
       sk' = [grbl_ser |-> sk.grbl_ser, input |-> input_after_reset(stale)]
  /\ wire' = <<status_query>>
  /\ ret' = NoRet
  /\ pc' = "query_read"
  /\ UNCHANGED <<cache, machine, sc, outstanding, req>>

\* read_response: what has arrived after the sleep, stripped; then the
\* parsing of the reply.
query_grbl_position_read ==
  /\ pc = "query_read"
  /\ \E reply \in Range(Responses) :
       /\ sk' = [grbl_ser |-> sk.grbl_ser, input |-> sk.input \o reply, reply |-> reply]
       /\ ret' = [kind |-> "return", value |-> position_result(Strip(sk.input \o reply))]
  /\ pc' = "idle"
  /\ UNCHANGED <<call, wire, cache, machine, sc, outstanding, req>>

ConnectionNext ==
  \/ create_grbl_connection
  \/ create_grbl_connection_wake
  \/ create_grbl_connection_settings
  \/ close_connection
  \/ query_grbl_position
  \/ query_grbl_position_read

ConnectionSpec == ConnectionInit /\ [][ConnectionNext]_vars
(* ====================================================== properties ==== *)
IsCoupled(line) ==
  HasWord(line, "Y") =>
    /\ HasWord(line, "Z")
    /\ WordVals(line, "Z") = WordVals(line, "Y")

Primitives == {"move_relative", "move_absolute", "set_work_coordinate_offset"}
RoughSeeks == {"move_until_limit_fast", "move_until_limit_fast_y"}
FineSeeks == {"move_until_limit", "move_until_limit_y"}
HomingCalls == {"home_x_axis_fast", "home_y_axis_fast", "home_all"}
IsPrefix(a, b) == Len(a) <= Len(b) /\ SubSeq(b, 1, Len(a)) = a
RecoveryLines == <<feed_hold, reset_grbl, unlock_alarm, SettingLine(1, 255)>>
RecoveryWords == {"!", "0x18", "$X", "$"}

\* C1: every command line written to the GRBL channel that contains a Y
\* word also contains a Z word with the identical value, the G-code stream
\* lines passed through send_command included.
C1_EveryYLineCarriesZ ==
  \A i \in 1..Len(wire) : IsCoupled(wire[i])

\* C2: move_relative, move_absolute and set_work_coordinate_offset called
\* with a y emit a single line that contains Y<y> and a Z word of value y,
\* whatever x, z and feed are.
C2_YArgumentIsCopiedToZ ==
  (call.name \in Primitives /\ ~IsNone(call.y)) =>
    /\ Len(wire) = 1
    /\ WordVals(wire[1], "Y") = {Val(call.y)}
    /\ WordVals(wire[1], "Z") = {Val(call.y)}

C2_Witness ==
  /\ call.name = "set_work_coordinate_offset"
  /\ call.y = Some(-5)
  /\ call.z = Some(7)
  /\ Len(wire) = 1

\* C3: in move_relative and move_absolute, with both y and z supplied the Z
\* word carries y and z does not appear; with z alone the line carries Z<z>
\* and no Y word.
C3_CouplingIsOneDirectional ==
  (call.name \in {"move_relative", "move_absolute"}) =>
    /\ (~IsNone(call.y) /\ ~IsNone(call.z)) =>
         /\ WordVals(wire[1], "Z") = {Val(call.y)}
         /\ (call.z # call.y => Val(call.z) \notin WordVals(wire[1], "Z"))
    /\ (IsNone(call.y) /\ ~IsNone(call.z)) =>
         /\ WordVals(wire[1], "Z") = {Val(call.z)}
         /\ ~HasWord(wire[1], "Y")

C3_Witness ==
  /\ call.name = "move_absolute"
  /\ IsNone(call.y)
  /\ call.z = Some(7)
  /\ HasWord(wire[1], "Z")

\* C4: when attempt k is the first attempt in which "ok" (in any case) is
\* read before an error:/alarm: line and before the deadline, send_command
\* has returned success=true, attempts=k, after writing the command exactly
\* k times.
C4_FirstOkAttemptIsReturned ==
  (call.name = "send_command") =>
    \A k \in 1..Len(sc.verdicts) :
      (sc.verdicts[k] /\ \A j \in 1..(k - 1) : ~sc.verdicts[j]) =>
        /\ pc = "idle"
        /\ ret.kind = "return"
        /\ ret.success
        /\ ret.attempts = k
        /\ Len(wire) = k
        /\ \A i \in 1..k : wire[i] = call.command

C4_Witness ==
  /\ call.name = "send_command"
  /\ pc = "idle"
  /\ sc.verdicts = <<FALSE, TRUE>>
  /\ ret.success
  /\ ret.response = << <<"O", "K">> >>

\* C5: send_command never writes the command more than retries times, resets
\* the input buffer before each write, and when every attempt ended with an
\* error:/alarm: line or a timeout it returns success=false with
\* attempts = retries after exactly retries writes.
C5_ExhaustionAfterRetriesWrites ==
  (call.name = "send_command") =>
    /\ Len(wire) <= call.retries
    /\ Len(sc.io) = 2 * Len(wire)
    /\ \A i \in 1..Len(sc.io) : sc.io[i] = (IF i % 2 = 1 THEN "reset" ELSE "write")
    /\ (pc = "idle" /\ \A k \in 1..Len(sc.verdicts) : ~sc.verdicts[k]) =>
         /\ ret.kind = "return"
         /\ ~ret.success
         /\ ret.attempts = call.retries
         /\ Len(wire) = call.retries
         /\ Len(sc.verdicts) = call.retries

C5_Witness ==
  /\ call.name = "send_command"
  /\ pc = "idle"
  /\ call.retries = 2
  /\ ~ret.success
  /\ ret.attempts = 2
  /\ sc.io = <<"reset", "write", "reset", "write">>

\* C6: whatever the controller answers (ok, error:, alarm:, other lines,
\* silence) and whatever the retry budget, send_command terminates with a
\* returned response; a failed command is success=false, never a raise.
C6_SendCommandAlwaysReturns ==
  /\ [](call.name = "send_command" /\ pc = "idle" =>
          ret.kind = "return" /\ ret.success \in BOOLEAN)
  /\ (call.name = "send_command" /\ pc # "idle") ~>
       (call.name = "send_command" /\ pc = "idle" /\ ret.kind = "return")

C6_Witness ==
  /\ call.name = "send_command"
  /\ pc = "idle"
  /\ ret.kind = "return"
  /\ ~ret.success
  /\ ret.response = << <<"A", "L", "A", "R", "M", ":", "1">> >>

\* C7: after any sequence of setting writes the cached value of each key
\* equals the last value written to the machine for that key, and a cached
\* value changes only together with a write for that key.
C7_CacheEqualsLastWrite ==
  /\ [](pc = "idle" =>
          \A k \in CachedKeys : ~IsNone(machine[k]) => cache[k] = machine[k])
  /\ [][\A k \in CachedKeys : cache'[k] # cache[k] => machine'[k] = cache'[k]]_vars

\* C8: in a rough seek no recovery command is sent before the watched switch
\* has been observed pressed; once it has, feed hold, soft reset, alarm
\* unlock and the step_idle_delay=255 write go out in that order, all of
\* them before the seek returns success.
C8_RecoveryOrder ==
  (call.name \in RoughSeeks) =>
    LET recovery == SubSeq(wire, 2, Len(wire))
    IN /\ Len(wire) >= 1
       /\ wire[1][1] = W("G", 1)
       /\ IsPrefix(recovery, RecoveryLines)
       /\ (recovery # <<>> => sk.pressed)
       /\ (pc = "idle" => ret.kind = "return" /\ ret.success /\ recovery = RecoveryLines)

C8_Witness ==
  /\ call.name = "move_until_limit_fast"
  /\ call.switch_id = 3
  /\ pc = "idle"
  /\ ret.success
  /\ sk.elapsed > 0
  /\ Len(wire) = 5

\* C9: a rough seek whose switch is never reported pressed ends (in a
\* terminal failure) instead of seeking forever.
C9_RoughSeekEnds ==
  (call.name \in RoughSeeks /\ pc # "idle") ~> (pc = "idle")

\* C10: a fine seek whose step is answered with an error: or alarm: line
\* returns failure and sends no feed hold, soft reset, alarm unlock or
\* setting write; a homing call ends in a raise.
C10_FineSeekFaultAborts ==
  /\ (call.name \in FineSeeks) =>
       /\ \A i \in 1..Len(wire) : \A j \in 1..Len(wire[i]) : wire[i][j].l \notin RecoveryWords
       /\ IsFaultText(sk.line) =>
            /\ pc = "idle"
            /\ ret.kind = "return"
            /\ ~ret.success
            /\ ret.distance = sk.distance
  /\ (call.name \in HomingCalls) => (pc = "idle" /\ ret.kind = "raise")

C10_Witness ==
  /\ call.name = "move_until_limit"
  /\ pc = "idle"
  /\ ~ret.success
  /\ sk.steps = 2
  /\ sk.line = <<"a", "l", "a", "r", "m", ":", "1">>

\* C19: no telemetry query returns a switch state taken from a line whose
\* device field is not the limit controller's, or from a malformed line:
\* the line that decided a finished query starts with '{', parses and
\* names the expected device.
C19_OnlyExpectedDeviceLinesDecide ==
  (call.name \in TelemetryCalls /\ pc = "idle" /\ ~IsNone(sk.json_data)) =>
    /\ Val(sk.json_data).brace
    /\ Val(sk.json_data).valid
    /\ Val(sk.json_data).device = "limit-controller"

\* C20: every telemetry query returns, and every fine-seek confirmation
\* wait ends; a query that met no deciding line before its deadline returns
\* the no-data result (none, found false with state 0, false, none).
C20_QueriesAndWaitsAreBounded ==
  /\ []((call.name \in TelemetryCalls /\ pc = "idle" /\ IsNone(sk.json_data)) =>
          ret.value = CASE call.name = "read_limit_controller_data" -> None
                        [] call.name = "get_switch_state" ->
                             [switch_id |-> call.switch_id, state |-> 0, found |-> FALSE]
                        [] call.name = "check_switch_pressed" -> FALSE
                        [] call.name = "get_pressed_switch_id" -> None)
  /\ (call.name \in TelemetryCalls /\ pc = "telemetry_read") ~> (pc = "idle")
  /\ (pc = "fine_wait") ~> (pc # "fine_wait")
  /\ (pc = "fine_y_wait") ~> (pc # "fine_y_wait")

\* A switch-state query whose window held only lines that decide nothing
\* has run into its deadline.
C20_Witness ==
  /\ call.name = "get_switch_state"
  /\ pc = "idle"
  /\ sk.reads = call.timeout
  /\ IsNone(sk.json_data)
  /\ ~ret.value.found

\* C18 as stated: within one operation no command is written before the
\* previous command's terminal condition (an ok, error: or alarm: line, or
\* its timeout) has been observed, whatever the operation: never more than
\* one written command is outstanding.
C18_NoWriteBeforeTerminalCondition ==
  outstanding <= 1

\* C18 as amended: the rule holds within send_command and within the fine
\* seeks; the primitives write and return, and the rough seeks write their
\* recovery lines with the long move still outstanding.
C18_WaitingOperationsWriteOneAtATime ==
  call.name \in {"send_command"} \cup FineSeeks => outstanding <= 1

\* A fine Y seek has written its second step after the first one's wait
\* ended.
C18_Witness ==
  /\ call.name = "move_until_limit_y"
  /\ Len(wire) = 2
  /\ outstanding = 1

\* A homing call ended because one of its seeks reported failure.
SeekFailed == ret.kind = "raise" /\ ret.exc = "RuntimeError"
HomingEnded(name) == call.name = name /\ pc = "idle" /\ ~SeekFailed
IsSettingWrite(line, num) == Len(line) = 2 /\ line[1] = W("$", num)
HomingPhases ==
  <<"ROUGH_SEEK_FORWARD", "ROUGH_SEEK_BACKWARD", "CENTER", "FAST_APPROACH",
    "FINE_SEEK_FORWARD", "RETREAT", "FINE_SEEK_BACKWARD", "CALIBRATE",
    "RECENTER", "DONE">>
\* Measured axis lengths, in 0.1 mm.
MeasuredLengths == {2910, 3000, 8990, 9100}
ScaledSteps(old, measured, known) == (old * measured) \div known

\* C11: home_all calibrates Y to completion before any X calibration
\* command, sets the origin only after both calibrations and outlines the
\* workspace (if asked to) only after that: a home_all call in which no
\* seek failed has written the Y axis settings, then the X axis setting,
\* then the G92 line, then the outline moves.
C11_HomeAllCalibratesYThenXThenOrigin ==
  HomingEnded("home_all") =>
    \E iy, ix, io \in 1..Len(wire) :
      /\ iy < ix /\ ix < io
      /\ IsSettingWrite(wire[iy], 102)
      /\ \A k \in 1..iy : ~IsSettingWrite(wire[k], 100)
      /\ IsSettingWrite(wire[ix], 100)
      /\ wire[io][1] = W("G", 92)
      /\ \A k \in 1..(io - 1) : wire[k][1] # W("G", 92)
      /\ call.outline => SubSeq(wire, io + 1, Len(wire))
                           = outline_workspace_lines(2910, 8990, 100, 6000)

\* C12: a single-axis homing in which no seek fails goes through the ten
\* phases in order, each once, and ends done.
C12_HomingPassesThroughAllPhases ==
  (HomingEnded("home_x_axis_fast") \/ HomingEnded("home_y_axis_fast")) =>
    /\ ret.kind = "return"
    /\ ret.reached = HomingPhases

\* C13: the steps-per-mm value that a calibration pushes to the machine and
\* caches is old * M / K, with old the value cached before, M the measured
\* and K the known length (291 mm for X).
C13_CalibrationScalesCachedSteps ==
  [][(call'.name = "home_x_axis_fast" /\ pc' = "idle" /\ ~SeekFailed') =>
      \E measured \in MeasuredLengths :
        LET new_steps == ScaledSteps(Val(cache["x_steps_per_mm"]), measured, 2910)
        IN /\ \E i \in 1..Len(wire') : wire'[i] = SettingLine(100, new_steps)
           /\ machine'["x_steps_per_mm"] = Some(new_steps)
           /\ cache'["x_steps_per_mm"] = Some(new_steps)]_vars

\* C14: a Y calibration in which no seek failed has pushed y_steps_per_mm
\* and z_steps_per_mm, both scaled by the one correction factor (from the
\* default of 40 steps per mm each, to the same value).
C14_YCalibrationScalesYAndZAlike ==
  HomingEnded("home_y_axis_fast") =>
    \E measured \in MeasuredLengths, iy, iz \in 1..Len(wire) :
      /\ iy < iz
      /\ wire[iy] = SettingLine(101, ScaledSteps(40, measured, 8990))
      /\ wire[iz] = SettingLine(102, ScaledSteps(40, measured, 8990))

\* C16: after the full home-all sequence the work-coordinate origin issued
\* to the controller lies 10 mm inside the front-left corner, not at the
\* point where the gantry is parked: the G92 line gives the parked point
\* coordinates other than zero.
C16_OriginIsInsetFromTheCorner ==
  HomingEnded("home_all") =>
    \E i \in 1..Len(wire) :
      /\ wire[i][1] = W("G", 92)
      /\ HasWord(wire[i], "X") /\ 0 \notin WordVals(wire[i], "X")
      /\ HasWord(wire[i], "Y") /\ 0 \notin WordVals(wire[i], "Y")

\* C17: with requests submitted concurrently to the one process, no two
\* handlers are in the middle of their command sequences at the same time,
\* and the lines on the channel since the running handler started are all
\* its own.
C17_NoTwoRequestsInFlight ==
  \A i \in RequestIds :
    req[i].state = "running" =>
      /\ \A j \in RequestIds \ {i} : req[j].state # "running"
      /\ Len(wire) = req[i].written

\* A steps-per-mm request has written its first setting and has another to
\* write, while a second request is waiting.
C17_Witness ==
  \E i, j \in RequestIds :
    /\ i # j
    /\ req[i].state = "running"
    /\ req[i].written = 1
    /\ Len(req[i].todo) = 2
    /\ req[j].state = "pending"

PressedQueries == {"check_switch_pressed", "get_pressed_switch_id"}
\* The ids of switch_ids that the line reports with state 1.
PressedIn(line, switch_ids) ==
  {line.switches[n].id : n \in {m \in 1..Len(line.switches) :
                                   /\ line.switches[m].id \in Range(switch_ids)
                                   /\ line.switches[m].state = 1}}

\* The call in progress was a query for pressed switches and reported one.
ReportedPressed ==
  IF call.name = "check_switch_pressed" THEN ret.value ELSE ~IsNone(ret.value)

\* C21: check_switch_pressed returns true and get_pressed_switch_id returns
\* an id only if a line read during the call reports a switch of the
\* supplied list with state 1; the id returned is in the list and pressed in
\* that line; and the call ends with the first such line it reads (no line
\* is read after one, none before the last is one).
C21_PressedOnlyOnListedSwitch ==
  (call.name \in PressedQueries /\ pc \in {"telemetry_read", "idle"}) =>
    LET hits == {n \in 1..Len(sk.seen) : PressedIn(sk.seen[n], call.switch_ids) # {}}
    IN /\ pc = "telemetry_read" => hits = {}
       /\ (pc = "idle" /\ ReportedPressed) =>
            /\ hits = {Len(sk.seen)}
            /\ call.name = "get_pressed_switch_id" =>
                 /\ Val(ret.value) \in Range(call.switch_ids)
                 /\ Val(ret.value) \in PressedIn(sk.seen[Len(sk.seen)], call.switch_ids)
       /\ (pc = "idle" /\ ~ReportedPressed) => hits = {}

C21_Witness ==
  /\ call.name = "get_pressed_switch_id" /\ pc = "idle"
  /\ call.switch_ids = <<4, 5>>
  /\ ret.value = Some(5)
  /\ Len(sk.seen) = 2

\* C22: update_setting is write-then-cache: whenever a cache entry changes,
\* the '$<index>=<value>' line for that key and value is already the last
\* line on the wire, the step writes nothing, and only that entry changes.
C22_WriteThenCache ==
  [][cache' # cache =>
      /\ call.name \in {"update_setting", "set_setting"}
      /\ wire # <<>>
      /\ wire[Len(wire)] = SettingLine(KEY_TO_SETTING_NUM[call.key], call.value)
      /\ wire' = wire
      /\ cache' = [cache EXCEPT ![call.key] = Some(call.value)]]_vars

C22_Witness ==
  /\ call.name = "update_setting" /\ pc = "idle" /\ ret.kind = "return"
  /\ call.key = "x_steps_per_mm"
  /\ wire = <<SettingLine(100, 260)>>
  /\ cache["x_steps_per_mm"] = Some(260)

\* C23: update_setting or set_setting with a key that is not in the table
\* raises with nothing written to the channel, and the step leaves the
\* machine's settings and every cached setting as they were.
C23_UnknownKeyRaisesBeforeWrite ==
  [][(call'.name \in {"update_setting", "set_setting"} /\ call'.key \notin SettingKeys) =>
      /\ pc' = "idle"
      /\ ret' = [kind |-> "raise", exc |-> "ValueError"]
      /\ wire' = <<>>
      /\ machine' = machine
      /\ cache' = cache]_vars

C23_Witness ==
  /\ call.name = "set_setting" /\ call.key = "spindle_warp" /\ call.connection
  /\ pc = "idle" /\ ret.kind = "raise"
  /\ cache["x_steps_per_mm"] = Some(260)

\* C24: the setting table round-trips in both directions: a name looked up
\* to its index and back gives the name, and an index looked up to its
\* name and back gives the index.
C24_TableRoundTrips ==
  /\ (call.name = "index_to_key" /\ call.trip = "back") => ret.value = Some(call.origin)
  /\ (call.name = "key_to_index" /\ call.trip = "back") => ret.value = Some(call.origin)

\* The handler of request i, a jog, ends in this step.
JogResponds(i) ==
  /\ req[i].state = "pending" /\ req[i].endpoint = "jog_endpoint"
  /\ req'[i].state = "done"

\* C25: a jog request with neither x nor y is rejected (400) with nothing
\* written to the GRBL channel, so that the controller's mode and position,
\* its settings and the settings cache stay as they were.
C25_EmptyJogRejectedBeforeHardware ==
  [][\A i \in RequestIds :
       (JogResponds(i) /\ IsNone(req'[i].x) /\ IsNone(req'[i].y)) =>
         /\ req'[i].status_code = 400
         /\ wire' = <<>>
         /\ outstanding' = 0
         /\ machine' = machine
         /\ cache' = cache]_vars

C25_Witness ==
  \E i \in RequestIds :
    /\ req[i].state = "done" /\ req[i].endpoint = "jog_endpoint"
    /\ IsNone(req[i].x) /\ IsNone(req[i].y)
    /\ req[i].status_code = 400
    /\ machine["x_steps_per_mm"] = Some(260)

\* The real-time status query that reports the position.
PositionQuery == <<W("?", 0)>>
IsMove(line) == line # <<>> /\ line[1] = W("G", 1)
\* The lines of one jog or return to home: query, mode, one coupled move,
\* query again; or the query alone when it yields no position.
IsSequenceOf(w, mode) ==
  \/ /\ Len(w) = 4
     /\ w[1] = PositionQuery
     /\ w[2] = mode
     /\ IsMove(w[3]) /\ IsCoupled(w[3])
     /\ w[4] = PositionQuery
  \/ w = <<PositionQuery>>

\* C26: a jog (with an axis given) or a return to home writes, in order,
\* the position query, its mode command (G91 for the jog, G90 for the
\* return), exactly one coupled move and the position query again; when
\* the first query yields no position it writes the query alone and fails.
C26_QueryModeMoveQuery ==
  [][\A i \in RequestIds :
       /\ (JogResponds(i) /\ ~(IsNone(req'[i].x) /\ IsNone(req'[i].y))) =>
            /\ IsSequenceOf(wire', set_mode_relative)
            /\ Len(wire') = 1 => req'[i].status_code = 500
       /\ (/\ req[i].state = "pending"
           /\ req[i].endpoint = "return_to_home_endpoint"
           /\ req'[i].state = "done") =>
            /\ IsSequenceOf(wire', set_mode_absolute)
            /\ Len(wire') = 1 => req'[i].status_code = 500]_vars

\* parts[0].upper()
CommandType(line) ==
  IF Split(line) = <<>> THEN <<>> ELSE Upper(Split(line)[1])
\* The values of the parameters of line that start with letter.
Params(line, letter) ==
  LET parts == Split(line)
      at == {i \in 2..Len(parts) : UpperChar(parts[i][1]) = letter}
  IN [i \in at |-> ParseNat(RStripSemi(Tail(parts[i])))]
\* The handler got as far as rewriting the stream for its laser power.
ReplayPrepared ==
  /\ call.name = "svg_to_gcode_endpoint" /\ call.is_svg /\ pc = "idle"
  /\ call.laser_power >= 0 /\ call.laser_power <= 1000

IsCoordinateLine(line) ==
  /\ CommandType(line) \in {<<"G", "0">>, <<"G", "1">>}
  /\ DOMAIN Params(line, "X") \cup DOMAIN Params(line, "Y") # {}
\* The only value of a one-entry function.
Only(f) == f[CHOOSE k \in DOMAIN f : TRUE]
SetMin(S) == CHOOSE m \in S : \A n \in S : m <= n
SetMax(S) == CHOOSE m \in S : \A n \in S : n <= m
\* The centre of the bounding box of the stream's coordinates along letter.
RawCenter(stream, letter) ==
  LET vs == UNION {Range(Params(stream[i], letter)) \cup {} : i \in
                     {j \in 1..Len(stream) : IsCoordinateLine(stream[j])}}
  IN (SetMin(vs) + SetMax(vs)) \div 2
\* The handler was given a stream with coordinates and has ended.
ReplayEnded ==
  /\ ReplayPrepared
  /\ \E i \in 1..Len(call.stream) : IsCoordinateLine(call.stream[i])
PositionArgs == {0, 50}

\* C27: a replay never writes G91 and does not count a G91 line of the
\* stream as sent, while it writes G90 for every G90 line of the stream
\* (after the one it writes itself before the first move).
C27_G91SkippedG90Executed ==
  ReplayEnded =>
    /\ \A k \in 1..Len(wire) : wire[k] # set_mode_relative
    /\ Cardinality({k \in 1..Len(wire) : wire[k] = set_mode_absolute})
         = 1 + Cardinality({i \in 1..Len(call.stream) :
                              CommandType(call.stream[i]) = <<"G", "9", "0">>})
    /\ ret.kind = "return"
    /\ ret.commands_sent
         = Cardinality({i \in 1..Len(call.stream) :
                          CommandType(call.stream[i]) # <<"G", "9", "1">>})

\* C28: the replay first moves to the target centre, which is the current
\* machine position plus (origin_x, origin_y), and then sends every G0/G1
\* line of the stream as an absolute move whose X and Y are the line's,
\* translated by target centre minus raw bounding-box centre.
C28_ReplayIsRecentred ==
  ReplayEnded =>
    \E px \in PositionArgs, py \in PositionArgs :
      LET moves == SelectSeq(wire, IsMove)
          lines == SelectSeq(call.stream, IsCoordinateLine)
          target_center_x == px + call.origin_x
          target_center_y == py + call.origin_y
          dx == target_center_x - RawCenter(call.stream, "X")
          dy == target_center_y - RawCenter(call.stream, "Y")
      IN /\ Len(moves) = Len(lines) + 2
         /\ WordVals(moves[1], "X") = {target_center_x}
         /\ WordVals(moves[1], "Y") = {target_center_y}
         /\ \A n \in 1..Len(lines) :
              /\ WordVals(moves[n + 1], "X") = {Only(Params(lines[n], "X")) + dx}
              /\ WordVals(moves[n + 1], "Y") = {Only(Params(lines[n], "Y")) + dy}

\* C29: once the stream has been processed, the last move the replay has
\* written is the absolute move to the origin: X0 Y0, with the coupled Z0.
C29_ReplayEndsAtOrigin ==
  ReplayEnded =>
    LET moves == SelectSeq(wire, IsMove)
    IN /\ moves # <<>>
       /\ WordVals(moves[Len(moves)], "X") = {0}
       /\ WordVals(moves[Len(moves)], "Y") = {0}
       /\ WordVals(moves[Len(moves)], "Z") = {0}

\* C31: a connect that fails has not left the channel open: when
\* create_grbl_connection raises, the channel was never opened or is closed.
C31_FailedConnectClosesChannel ==
  (call.name = "create_grbl_connection" /\ pc = "idle" /\ ret.kind = "raise") =>
    /\ ret.exc = "RuntimeError"
    /\ sk.grbl_ser \in {"unbound", "closed"}

C31_Witness ==
  /\ call.name = "create_grbl_connection" /\ pc = "idle" /\ ret.kind = "raise"
  /\ wire = <<wake_up, settings_query>>
  /\ sk.grbl_ser = "closed"

\* The entry each line of SettingsLines stands for: index and value of the
\* lines shaped '$<int>=<float>' with an optional comment in parentheses.
ExpectedEntries ==
  << Some(<<100, 250000>>),
     Some(<<1, 25000>>),
     Some(<<1, 255000>>),
     Some(<<100, 260500>>),
     None,
     None,
     None,
     None,
     None >>
ExpectedEntry(line) ==
  ExpectedEntries[CHOOSE i \in 1..Len(SettingsLines) : SettingsLines[i] = line]

ExpectedPositions ==
  << <<Some(1500), Some(2000), None>>,
     <<Some(4000), Some(-2000), Some(3000)>>,
     <<None, None, None>>,
     <<None, None, None>>,
     <<None, None, None>>,
     <<None, None, None>>,
     <<None, None, None>> >>
ExpectedPosition(reply) ==
  ExpectedPositions[CHOOSE i \in 1..Len(Responses) : Responses[i] = reply]

\* C33: a position query returns, without raising, null for every
\* coordinate that the reply to this query does not carry after 'MPos:'
\* (all three when it lacks 'MPos:'), and a coordinate that is not null is
\* the one parsed from the reply to this same query.
C33_PositionOnlyFromThisReply ==
  (call.name = "query_grbl_position" /\ pc = "idle") =>
    /\ ret.kind = "return"
    /\ <<ret.value.x, ret.value.y, ret.value.z>> = ExpectedPosition(sk.reply)
    /\ Find(sk.reply, <<"M", "P", "o", "s", ":">>) = 0 =>
         /\ IsNone(ret.value.x) /\ IsNone(ret.value.y) /\ IsNone(ret.value.z)

C33_Witness ==
  /\ call.name = "query_grbl_position" /\ pc = "idle"
  /\ sk.reply = <<"<", "I", "d", "l", "e", "|", "M", "P", "o", "s", ":", "1", ".", "5", ",", "2", ",", "3", "|", "F", "S", ":", "0", ",", "0", ">">>
  /\ ret.value.x = Some(1500) /\ ret.value.y = Some(2000) /\ IsNone(ret.value.z)

\* The step move a fine seek writes.
StepMove ==
  IF call.name = "move_until_limit"
  THEN move_relative(Some(Signed(call.direction, call.step_size)), None, None,
                     Some(call.feed))
  ELSE move_relative(None, Some(Signed(call.direction, call.step_size)), None,
                     Some(call.feed))
FineSeekReturned == call.name \in FineSeeks /\ pc = "idle" /\ ret.kind = "return"

\* C37: in a fine seek no step move is written once the switch has been
\* seen pressed; the distance returned is step_size times the number of step
\* moves written; a seek whose first poll sees the switch pressed returns
\* success with distance 0 and has written nothing.
C37_FineSeekStopsAtThePress ==
  /\ [](FineSeekReturned =>
          /\ \A i \in 1..Len(wire) : wire[i] = StepMove
          /\ ret.distance = call.step_size * Len(wire))
  /\ [][(call.name \in FineSeeks /\ pc # "idle") =>
          /\ wire' # wire => (~sk.pressed /\ ~sk'.pressed)
          /\ (sk.steps = 0 /\ sk'.pressed) =>
               /\ pc' = "idle"
               /\ ret' = [kind |-> "return", success |-> TRUE, distance |-> 0]
               /\ wire' = <<>>]_vars

C37_Witness ==
  /\ FineSeekReturned
  /\ ret.success /\ sk.pressed
  /\ Len(wire) = 2
  /\ ret.distance = 2 * call.step_size

SeekPolls == {"fast_poll", "fast_y_poll", "fine_poll", "fine_y_poll", "fine_confirm"}

\* C38: a telemetry window with no frame for the watched switch (found =
\* false; none of the listed switches reported) is handled as 'not
\* pressed': the seek does not return and sends no recovery; a rough seek
\* and the second poll of a fine step go on polling, and the poll at the top
\* of a fine step writes the next step move.
C38_SilentWindowIsNotPressed ==
  [][(pc \in SeekPolls /\ ~sk'.found) =>
       /\ ret' = NoRet
       /\ ~sk'.pressed
       /\ CASE pc \in {"fast_poll", "fast_y_poll"} -> pc' = pc /\ wire' = wire
            [] pc = "fine_poll" -> pc' = "fine_wait" /\ wire' = Append(wire, StepMove)
            [] pc = "fine_y_poll" -> pc' = "fine_y_wait" /\ wire' = Append(wire, StepMove)
            [] pc = "fine_confirm" -> pc' = "fine_poll" /\ wire' = wire]_vars

C38_Witness ==
  /\ call.name = "move_until_limit" /\ pc = "fine_wait"
  /\ ~sk.found
  /\ wire = <<StepMove, StepMove>>

\* The controller's modal state after the lines of w, entry being the state
\* before them: set by the last G90 / G91, absolute after a soft reset.
RECURSIVE ModalState(_, _)
ModalState(w, entry) ==
  IF w = <<>> THEN entry
  ELSE LET last == w[Len(w)]
       IN IF last = set_mode_relative THEN "relative"
          ELSE IF last = set_mode_absolute \/ last = reset_grbl THEN "absolute"
          ELSE ModalState(SubSeq(w, 1, Len(w) - 1), entry)
\* The operations that write moves, with the kind of their moves: the
\* outline, home_all and the replay use move_absolute, the homing calls
\* and the seeks move_relative.
AbsoluteOperations == {"outline_workspace", "home_all", "svg_to_gcode_endpoint"}
RelativeOperations == {"home_x_axis_fast", "home_y_axis_fast"}
\* The modal states an operation may be entered in.  A seek is entered in
\* relative mode (calibration.py:205, 214, 225 write G91 before it).
EntryStates ==
  IF call.name \in RoughSeeks \cup FineSeeks THEN {"relative"}
  ELSE {"absolute", "relative"}

StepsPerMmSettings == {100, 101, 102}

\* C35: an axis homing call that raises before its calibrate phase has
\* written no x/y/z steps-per-mm setting, and the cached values are those of
\* before the call.
C35_FailedHomingWritesNoStepsPerMm ==
  [][(call'.name \in {"home_x_axis_fast", "home_y_axis_fast"}
        /\ pc' = "idle" /\ ret'.kind = "raise"
        /\ "CALIBRATE" \notin Range(ret'.reached)) =>
       /\ \A i \in 1..Len(wire') : \A n \in StepsPerMmSettings :
            ~IsSettingWrite(wire'[i], n)
       /\ cache' = cache
       /\ machine'["x_steps_per_mm"] = machine["x_steps_per_mm"]]_vars

C35_Witness ==
  /\ call.name = "home_x_axis_fast" /\ pc = "idle" /\ ret.kind = "raise"
  /\ wire = <<>>
  /\ cache["x_steps_per_mm"] = Some(260)
  /\ machine["x_steps_per_mm"] = Some(260)

\* The last value written for setting num in w, None if there is none.
RECURSIVE LastSetting(_, _)
LastSetting(w, num) ==
  IF w = <<>> THEN None
  ELSE IF IsSettingWrite(w[Len(w)], num) THEN Some(w[Len(w)][2].v)
  ELSE LastSetting(SubSeq(w, 1, Len(w) - 1), num)

\* C36: an axis homing in which no seek failed returns, and then the last
\* positioning-mode command written is G90 and the last step_idle_delay
\* written is 25, which is also the cached value: the motor lock of 255 does
\* not outlive the homing.
C36_HomingRestoresModeAndIdleDelay ==
  (HomingEnded("home_x_axis_fast") \/ HomingEnded("home_y_axis_fast")) =>
    /\ ret.kind = "return"
    /\ ModalState(wire, "relative") = "absolute"
    /\ LastSetting(wire, 1) = Some(25)
    /\ cache["step_idle_delay"] = Some(25)

\* C39: when the Y calibration inside home_all raises, home_all raises and
\* has written no command of the X homing (no line with an X word, no
\* x_steps_per_mm setting), no G92 and no outline move.
C39_HomeAllStopsAtTheFirstFailure ==
  (call.name = "home_all" /\ pc = "idle") =>
    /\ ret.kind = "raise"
    /\ \A i \in 1..Len(wire) :
         /\ ~HasWord(wire[i], "X")
         /\ ~IsSettingWrite(wire[i], 100)
         /\ wire[i][1] # W("G", 92)

C39_Witness ==
  /\ call.name = "home_all" /\ pc = "idle"
  /\ call.outline
  /\ ret.kind = "raise" /\ ret.exc = "UnboundLocalError"
  /\ wire = <<>>
====
